---- MODULE Spec2Model ----
(***************************************************************************)
(* Tool authorization and approval subsystem of nixclaw.                   *)
(*                                                                         *)
(*   Spec       ApprovalStore, every call run to completion (one process)  *)
(*   SpecConc   ApprovalStore, calls of independent processes interleaved  *)
(*              at the granularity of one durable-store get or set         *)
(*   SpecHook   scripts/nixclaw-hook.sh polling the ApprovalStore          *)
(*   SpecPolicy evaluatePolicy over all small rule lists and requests      *)
(***************************************************************************)
EXTENDS Integers, Sequences, FiniteSets, TLC

\* ---------------------------------------------------------------- bounds
MaxIds      == 2    \* size of the space randomUUID().slice(0, 8) draws from
MaxClock    == 2    \* Date.now() ranges over 0..MaxClock
MaxAge      == 2    \* maxAgeMs ranges over 0..MaxAge
MaxRequests == 2    \* number of requestApproval calls in one behaviour of Spec
MaxConcRequests == 2 \* the same, in one behaviour of SpecConc
MaxTimeout  == 2    \* NIXCLAW_APPROVAL_TIMEOUT ranges over 0..MaxTimeout
MaxRules    == 2    \* length of the ToolPolicy list
MaxTools    == 3    \* number of registered tools
MaxArgs     == 2    \* length of an argument vector
MaxBytes    == 3    \* largest explicit maxBytes option
MaxIndex    == 3    \* length of a pending index that has drifted
MaxAppends  == 52   \* number of messages appended in one behaviour of SpecConv
MaxReplies  == 1    \* number of assistant messages among them
MaxOther    == 1    \* number of messages appended to the second conversation
MaxPlugins  == 3    \* plugins registered with the host
MaxSignals  == 2    \* termination signals the process receives

IdSpace  == 1..MaxIds
Times    == 0..MaxClock
Ages     == 0..MaxAge
Procs    == {"p1", "p2"}

Decisions == {"allow", "deny"}
Terminal  == {"allow", "deny", "expired"}
Statuses  == {"pending"} \cup Terminal

\* the caller's part of an ApprovalRequest (Omit<.., "id"|"status"|"createdAt">)
ReqInputs ==
  { [tool |-> "Bash",  input |-> "git push origin main",
     session |-> "s1", requester |-> "claude-code"],
    [tool |-> "Write", input |-> "/etc/hosts",
     session |-> "s2", requester |-> "x"] }

VARIABLES
  records,        \* durable store, namespace "approvals": id -> ApprovalRequest
  pendingIndex,   \* durable store, key "_pending_index" (absent reads as [])
  clock,          \* Date.now()
  nRequests,      \* requestApproval calls made so far
  ret,            \* the last completed call of Spec and what it returned
  proc,           \* SpecConc: per process, the call in progress and its locals
  hook,           \* SpecHook: the run of scripts/nixclaw-hook.sh
  policies,       \* SpecPolicy: the ordered ToolPolicy list
  evaluated,      \* SpecPolicy: the last evaluatePolicy call and its result
  tools,          \* SpecGate: PluginHost.tools, the registered tool names in order
  gate,           \* SpecGate: the last getToolsForContext call and its result
  exec,           \* SpecExec: the last sandbox or tool-executor call
  parsed,         \* SpecParse: the last parseApprovalCommand call and its result
  pairing,        \* SpecPairing: the PairingManager and its last call
  thrown,         \* SpecFail: the exception the last store call raised
  conversations,  \* SpecConv: durable store, namespace "conversations", and all appends
  telegram,       \* SpecTelegram: the TelegramChannel plugin and the event bus
  lifecycle       \* SpecLife: PluginHost.plugins and the init and shutdown calls

hookVars   == <<hook>>
policyVars == <<policies, evaluated>>
hostVars   == <<tools, gate>>
execVars   == <<exec>>
channelVars == <<parsed, pairing>>
failVars   == <<thrown>>
runVars    == <<conversations, telegram, lifecycle>>
vars == <<records, pendingIndex, clock, nRequests, ret, proc, hook, policies, evaluated,
          tools, gate, exec, parsed, pairing, thrown, conversations, telegram, lifecycle>>

\* ------------------------------------------------------ durable key-value
\* An optional value is a sequence of length 0 (undefined) or 1.
None      == <<>>
Some(v)   == <<v>>

getJSON(recs, id) == IF id \in DOMAIN recs THEN Some(recs[id]) ELSE None

setJSON(recs, id, value) ==
  [k \in DOMAIN recs \cup {id} |-> IF k = id THEN value ELSE recs[k]]

\* ------------------------------------------------------ ApprovalStore
ApprovalRequest(req, id, status, createdAt) ==
  [id |-> id, tool |-> req.tool, input |-> req.input, session |-> req.session,
   requester |-> req.requester, status |-> status, createdAt |-> createdAt]

get_blankWhenMissing(recs, id) ==
  IF id \in DOMAIN recs THEN Some(recs[id])
  ELSE Some(ApprovalRequest(CHOOSE req \in ReqInputs : TRUE, id, "pending", 0))
get(recs, id) == getJSON(recs, id)

isPending_anyStatus(r) == r # None
isPending(r) == r # None /\ r[1].status = "pending"

removeFromPendingIndex(index, id) == SelectSeq(index, LAMBDA i : i # id)

includes(seq, x) == \E k \in 1..Len(seq) : seq[k] = x

\* the due test of expireOlderThan, line 60
isDue_strict(r, now, maxAgeMs) == isPending(r) /\ now - r[1].createdAt > maxAgeMs
isDue_ignoreAge(r, now, maxAgeMs) == isPending(r)
isDue(r, now, maxAgeMs) == isPending(r) /\ now - r[1].createdAt >= maxAgeMs

\* the for loop of expireOlderThan from position i on: the store and
\* expiredIds after it
RECURSIVE expireLoop(_, _, _, _, _, _)
expireLoop(index, i, recs, expiredIds, now, maxAgeMs) ==
  IF i > Len(index) THEN [recs |-> recs, expiredIds |-> expiredIds]
  ELSE LET id  == index[i]
           req == get(recs, id)
       IN IF isDue(req, now, maxAgeMs)
            THEN expireLoop(index, i + 1,
                            setJSON(recs, id, [req[1] EXCEPT !.status = "expired"]),
                            Append(expiredIds, id), now, maxAgeMs)
            ELSE expireLoop(index, i + 1, recs, expiredIds, now, maxAgeMs)

\* index.map(get).filter(defined and pending) of listPending
listPendingFrom_noStatusCheck(index, i, recs) ==
  LET present == SelectSeq(index, LAMBDA id : get(recs, id) # None)
  IN [k \in 1..Len(present) |-> recs[present[k]]]
RECURSIVE listPendingFrom(_, _, _)
listPendingFrom(index, i, recs) ==
  IF i > Len(index) THEN <<>>
  ELSE LET r == get(recs, index[i])
       IN (IF isPending(r) THEN <<r[1]>> ELSE <<>>)
          \o listPendingFrom(index, i + 1, recs)

\* ------------------------------------------------------ results of calls
NoRet == [op |-> "none", id |-> 0, maxAgeMs |-> 0, rec |-> None, list |-> <<>>]

IdleProc ==
  [pc |-> "idle", id |-> 0, req |-> None, index |-> <<>>, now |-> 0,
   maxAgeMs |-> 0, i |-> 0, expiredIds |-> <<>>]

\* the hook before its first command
HookStart ==
  [pc |-> "start", TIMEOUT |-> 0, RESPONSE |-> 0, REQUEST_ID |-> 0, i |-> 0,
   STATUS |-> "none", DECISION |-> "none", out |-> "none", exit |-> "running"]

\* no evaluatePolicy call made yet
NoEval == [toolName |-> "none", channel |-> "none", sender |-> "none",
           decision |-> "none"]

\* no getToolsForContext call made yet
\* registered: the tool of the last registration, when that was the last call
NoGate == [channel |-> "none", sender |-> "none", list |-> <<>>, registered |-> "none"]

\* no sandbox or executor call made yet
NoExec == [op |-> "none", phase |-> "none", tool |-> "none", command |-> <<>>,
           args |-> <<>>, maxBytes |-> 0, checked |-> <<>>, spawned |-> <<>>,
           outcomes |-> <<>>, result |-> <<>>]

\* access: which store access of the last call failed (0: none);
\* error: the exception that reached the caller of that call
NoThrow == [access |-> 0, error |-> "none"]

\* context.ts: nothing stored, nothing appended
ConversationIds == {"conv-1", "conv-2"}
NoConversations ==
  [stored |-> [c \in {} |-> <<>>], appended |-> [c \in ConversationIds |-> <<>>]]

\* telegram/index.ts, the channel after construction. phase: constructed,
\* started (init ran to its end), skipped (init returned at line 286) or
\* stopped (shutdown ran); stt: a speech-to-text provider is configured;
\* subscribed: the events of the bus for which a handler of the channel is
\* subscribed; cleanups: this.cleanups, each entry the event whose handler
\* the function unsubscribes. The last handler run or emit: op (text, voice,
\* emit, init, shutdown), the sender and text of the message, the events
\* it put on the bus, the handlers of the channel that ran for them and the
\* requests POSTed to /api/approve/<id>/decide
NoTelegram ==
  [phase |-> "constructed", stt |-> FALSE, subscribed |-> {}, cleanups |-> <<>>,
   op |-> "none", userId |-> "none", text |-> <<>>, emitted |-> <<>>, ran |-> {},
   posts |-> <<>>]

\* plugin-host.ts and index.ts, the host after construction. plugins:
\* this.plugins; registered: the plugins in the order of their registration;
\* phase: registering, initializing (initAll awaits an init) or running;
\* initIndex: the entries the iterator of initAll has returned; initLog: the
\* plugins whose init was called, in call order; calls: the invocations of
\* the shutdown handler, each with the entries its iterator has returned,
\* the plugins whose shutdown it called, in call order, and its position
\* (awaiting a plugin's shutdown, or disconnecting: shutdownAll returned);
\* exited: process.exit ran
NoLifecycle ==
  [plugins |-> <<>>, registered |-> <<>>, phase |-> "registering", initIndex |-> 0,
   initLog |-> <<>>, calls |-> <<>>, exited |-> FALSE]

NoParse == [called |-> FALSE, text |-> <<>>, result |-> None]

\* pairing.ts lines 3-9, the fields and the constructor; op, userId, code
\* and result are the last call: its name, its user, the code it was given
\* (completePairing) or returned (requestPairing), the boolean it returned
PairingManager(allowedUsers) ==
  [allowedUsers |-> allowedUsers,
   pendingCodes |-> <<>>,
   pairedUsers  |-> {allowedUsers[k] : k \in 1..Len(allowedUsers)},
   op |-> "none", userId |-> "none", code |-> <<>>, result |-> FALSE]

InitStore ==
  /\ records = <<>>
  /\ pendingIndex = <<>>
  /\ clock = 0
  /\ nRequests = 0

\* ------------------------------------------------------ Spec: whole calls
Init ==
  /\ InitStore
  /\ ret = NoRet
  /\ proc = [p \in Procs |-> IdleProc]
  /\ hook = HookStart
  /\ policies = <<>>
  /\ evaluated = NoEval
  /\ tools = <<>>
  /\ gate = NoGate
  /\ exec = NoExec
  /\ parsed = NoParse
  /\ pairing = PairingManager(<<>>)
  /\ thrown = NoThrow
  /\ conversations = NoConversations
  /\ telegram = NoTelegram
  /\ lifecycle = NoLifecycle

\* the passing of time between calls
Tick ==
  /\ clock < MaxClock
  /\ clock' = clock + 1
  /\ UNCHANGED <<records, pendingIndex, nRequests, ret, proc, hookVars, policyVars, hostVars, execVars, channelVars, failVars, runVars>>

\* the store writes of one requestApproval call that mints id
requestApproval(req, id) ==
  /\ nRequests < MaxRequests
  /\ nRequests' = nRequests + 1
  /\ records' = setJSON(records, id, ApprovalRequest(req, id, "pending", clock))
  /\ pendingIndex' = Append(pendingIndex, id)

RequestApproval ==
  \E req \in ReqInputs, id \in IdSpace :
    /\ requestApproval(req, id)
    /\ ret' = [NoRet EXCEPT !.op = "requestApproval", !.id = id]
    /\ UNCHANGED <<clock, proc, hookVars, policyVars, hostVars, execVars, channelVars, failVars, runVars>>

Get ==
  \E id \in IdSpace :
    /\ ret' = [NoRet EXCEPT !.op = "get", !.id = id, !.rec = get(records, id)]
    /\ UNCHANGED <<records, pendingIndex, clock, nRequests, proc, hookVars, policyVars, hostVars, execVars, channelVars, failVars, runVars>>

Decide ==
  \E id \in IdSpace, decision \in Decisions :
    LET req == get(records, id) IN
    /\ IF ~isPending(req)
         THEN UNCHANGED <<records, pendingIndex>>
         ELSE /\ records' = setJSON(records, id, [req[1] EXCEPT !.status = decision])
              /\ pendingIndex' = removeFromPendingIndex(pendingIndex, id)
    /\ ret' = [NoRet EXCEPT !.op = "decide", !.id = id]
    /\ UNCHANGED <<clock, nRequests, proc, hookVars, policyVars, hostVars, execVars, channelVars, failVars, runVars>>

ListPending ==
  /\ ret' = [NoRet EXCEPT !.op = "listPending",
                          !.list = listPendingFrom(pendingIndex, 1, records)]
  /\ UNCHANGED <<records, pendingIndex, clock, nRequests, proc, hookVars, policyVars, hostVars, execVars, channelVars, failVars, runVars>>

ExpireOlderThan ==
  \E maxAgeMs \in Ages :
    LET index == pendingIndex
        done  == expireLoop(index, 1, records, <<>>, clock, maxAgeMs)
    IN
    /\ records' = done.recs
    /\ pendingIndex' = IF Len(done.expiredIds) > 0
                         THEN SelectSeq(index, LAMBDA id : ~includes(done.expiredIds, id))
                         ELSE pendingIndex
    /\ ret' = [NoRet EXCEPT !.op = "expireOlderThan", !.maxAgeMs = maxAgeMs]
    /\ UNCHANGED <<clock, nRequests, proc, hookVars, policyVars, hostVars, execVars, channelVars, failVars, runVars>>

Next ==
  \/ Tick
  \/ RequestApproval
  \/ Get
  \/ Decide
  \/ ListPending
  \/ ExpireOlderThan

Spec == Init /\ [][Next]_vars

\* ------------------------------------------------------ SpecList: any store
\* listPending applied to any content of the durable store: records of any
\* status (created at time 0) and any pending index, also one that names
\* ids without a record or with a record that is not pending.
StoreContents ==
  UNION {{[id \in D |-> ApprovalRequest(c[id][1], id, c[id][2], 0)] :
            c \in [D -> ReqInputs \X Statuses]} : D \in SUBSET IdSpace}

\* what the index may name: the ids of IdSpace and one more, under which no
\* record is stored
IndexIds == IdSpace \cup {MaxIds + 1}

RECURSIVE IndexContents(_)
IndexContents(n) ==
  IF n = 0 THEN {<<>>}
  ELSE IndexContents(n - 1)
       \cup {Append(l, id) : l \in {k \in IndexContents(n - 1) : Len(k) = n - 1},
                            id \in IndexIds}

InitList ==
  /\ records \in StoreContents
  /\ pendingIndex \in IndexContents(MaxIndex)
  /\ clock = 0
  /\ nRequests = 0
  /\ ret = NoRet
  /\ proc = [p \in Procs |-> IdleProc]
  /\ hook = HookStart
  /\ policies = <<>>
  /\ evaluated = NoEval
  /\ tools = <<>>
  /\ gate = NoGate
  /\ exec = NoExec
  /\ parsed = NoParse
  /\ pairing = PairingManager(<<>>)
  /\ thrown = NoThrow
  /\ conversations = NoConversations
  /\ telegram = NoTelegram
  /\ lifecycle = NoLifecycle

NextList ==
  \/ ListPending

SpecList == InitList /\ [][NextList]_vars

\* ------------------------------------------------------ SpecConc: store steps
\* Each action is one durable-store get or set of one call; the calls of
\* different processes interleave between them.
goto(p, loc) == proc' = [proc EXCEPT ![p] = loc]

\* requestApproval, lines 20-27: mint the id, set the record
RA_SetRecord(p) ==
  \E req \in ReqInputs, id \in IdSpace :
    /\ proc[p].pc = "idle"
    /\ nRequests < MaxConcRequests
    /\ nRequests' = nRequests + 1
    /\ records' = setJSON(records, id, ApprovalRequest(req, id, "pending", clock))
    /\ goto(p, [IdleProc EXCEPT !.pc = "ra_getIndex", !.id = id])
    /\ UNCHANGED <<pendingIndex, clock, ret, hookVars, policyVars, hostVars, execVars, channelVars, failVars, runVars>>

\* requestApproval, line 29
RA_GetIndex(p) ==
  /\ proc[p].pc = "ra_getIndex"
  /\ goto(p, [proc[p] EXCEPT !.pc = "ra_setIndex", !.index = pendingIndex])
  /\ UNCHANGED <<records, pendingIndex, clock, nRequests, ret, hookVars, policyVars, hostVars, execVars, channelVars, failVars, runVars>>

\* requestApproval, lines 30-32
RA_SetIndex(p) ==
  /\ proc[p].pc = "ra_setIndex"
  /\ pendingIndex' = Append(proc[p].index, proc[p].id)
  /\ goto(p, IdleProc)
  /\ UNCHANGED <<records, clock, nRequests, ret, hookVars, policyVars, hostVars, execVars, channelVars, failVars, runVars>>

\* decide, lines 40-42
D_Get(p) ==
  \E id \in IdSpace, decision \in Decisions :
    LET req == get(records, id) IN
    /\ proc[p].pc = "idle"
    /\ IF ~isPending(req)
         THEN goto(p, IdleProc)
         ELSE goto(p, [IdleProc EXCEPT !.pc = "d_setRecord", !.id = id,
                         !.req = Some([req[1] EXCEPT !.status = decision])])
    /\ UNCHANGED <<records, pendingIndex, clock, nRequests, ret, hookVars, policyVars, hostVars, execVars, channelVars, failVars, runVars>>

\* decide, line 43
D_SetRecord(p) ==
  /\ proc[p].pc = "d_setRecord"
  /\ records' = setJSON(records, proc[p].id, proc[p].req[1])
  /\ goto(p, [proc[p] EXCEPT !.pc = "d_getIndex"])
  /\ UNCHANGED <<pendingIndex, clock, nRequests, ret, hookVars, policyVars, hostVars, execVars, channelVars, failVars, runVars>>

\* removeFromPendingIndex, line 73
D_GetIndex(p) ==
  /\ proc[p].pc = "d_getIndex"
  /\ goto(p, [proc[p] EXCEPT !.pc = "d_setIndex", !.index = pendingIndex])
  /\ UNCHANGED <<records, pendingIndex, clock, nRequests, ret, hookVars, policyVars, hostVars, execVars, channelVars, failVars, runVars>>

\* removeFromPendingIndex, lines 74-75
D_SetIndex(p) ==
  /\ proc[p].pc = "d_setIndex"
  /\ pendingIndex' = removeFromPendingIndex(proc[p].index, proc[p].id)
  /\ goto(p, IdleProc)
  /\ UNCHANGED <<records, clock, nRequests, ret, hookVars, policyVars, hostVars, execVars, channelVars, failVars, runVars>>

\* where expireOlderThan continues once the loop stands at position i
afterIteration(loc, i, expiredIds) ==
  [loc EXCEPT !.i = i, !.expiredIds = expiredIds, !.req = None,
              !.pc = IF i <= Len(loc.index) THEN "e_get"
                     ELSE IF Len(expiredIds) > 0 THEN "e_setIndex" ELSE "idle"]

endCall(loc) == IF loc.pc = "idle" THEN IdleProc ELSE loc

\* expireOlderThan, lines 55-57
E_GetIndex(p) ==
  \E maxAgeMs \in Ages :
    /\ proc[p].pc = "idle"
    /\ goto(p, endCall(afterIteration(
                 [IdleProc EXCEPT !.index = pendingIndex, !.now = clock,
                                  !.maxAgeMs = maxAgeMs], 1, <<>>)))
    /\ UNCHANGED <<records, pendingIndex, clock, nRequests, ret, hookVars, policyVars, hostVars, execVars, channelVars, failVars, runVars>>

\* expireOlderThan, lines 59-61
E_Get(p) ==
  LET loc == proc[p]
      id  == loc.index[loc.i]
      req == get(records, id)
  IN
  /\ loc.pc = "e_get"
  /\ IF isDue(req, loc.now, loc.maxAgeMs)
       THEN goto(p, [loc EXCEPT !.pc = "e_setRecord", !.id = id,
                       !.req = Some([req[1] EXCEPT !.status = "expired"])])
       ELSE goto(p, endCall(afterIteration(loc, loc.i + 1, loc.expiredIds)))
  /\ UNCHANGED <<records, pendingIndex, clock, nRequests, ret, hookVars, policyVars, hostVars, execVars, channelVars, failVars, runVars>>

\* expireOlderThan, lines 62-63
E_SetRecord(p) ==
  LET loc == proc[p] IN
  /\ loc.pc = "e_setRecord"
  /\ records' = setJSON(records, loc.id, loc.req[1])
  /\ goto(p, afterIteration(loc, loc.i + 1, Append(loc.expiredIds, loc.id)))
  /\ UNCHANGED <<pendingIndex, clock, nRequests, ret, hookVars, policyVars, hostVars, execVars, channelVars, failVars, runVars>>

\* expireOlderThan, lines 66-69
E_SetIndex(p) ==
  LET loc == proc[p] IN
  /\ loc.pc = "e_setIndex"
  /\ pendingIndex' = SelectSeq(loc.index, LAMBDA id : ~includes(loc.expiredIds, id))
  /\ goto(p, IdleProc)
  /\ UNCHANGED <<records, clock, nRequests, ret, hookVars, policyVars, hostVars, execVars, channelVars, failVars, runVars>>

RequestApprovalStep == \E p \in Procs : RA_SetRecord(p) \/ RA_GetIndex(p) \/ RA_SetIndex(p)
DecideStep == \E p \in Procs : D_Get(p) \/ D_SetRecord(p) \/ D_GetIndex(p) \/ D_SetIndex(p)
ExpireStep == \E p \in Procs : E_GetIndex(p) \/ E_Get(p) \/ E_SetRecord(p) \/ E_SetIndex(p)

NextConc ==
  \/ Tick
  \/ RequestApprovalStep
  \/ DecideStep
  \/ ExpireStep

SpecConc == Init /\ [][NextConc]_vars

\* ------------------------------------------------------ SpecHook: polling hook
\* scripts/nixclaw-hook.sh run against a server whose routes call the
\* ApprovalStore (POST /api/approve -> requestApproval, GET /api/approve/:id
\* -> get), while a human decides and the expiry sweep runs.
HookPayloads == {r \in ReqInputs : r.requester = "claude-code"}

\* echo '{"decision": ...}'; exit 0
hookExit(loc, decision, path) ==
  [loc EXCEPT !.pc = "exited", !.out = decision, !.exit = path]

\* a failing jq under set -euo pipefail: the script stops without output
hookAbort(loc) == [loc EXCEPT !.pc = "exited", !.exit = "jq_error"]

\* jq -r '.status // "pending"'
jqStatus(STATUS) == IF STATUS = "{}" THEN "pending" ELSE STATUS

\* line 52
isDecision(DECISION) == DECISION = "allow" \/ DECISION = "deny"

\* line 61
timeoutDecision_failOpen == "allow"
timeoutDecision == "deny"

\* GET /api/approve/:id as curl -sf sees it: the record's status, or a
\* failure (server unreachable, or not-found for an unknown id)
approveStatus(recs, id) ==
  LET r == get(recs, id) IN IF r = None THEN {"curl_failed"} ELSE {r[1].status}

\* lines 21-30
H_Start ==
  /\ hook.pc = "start"
  /\ \/ hook' = hookExit(hook, "deny", "jq_missing")
     \/ \E t \in 0..MaxTimeout : hook' = [hook EXCEPT !.pc = "post", !.TIMEOUT = t]
  /\ UNCHANGED <<records, pendingIndex, clock, nRequests, ret, proc, policyVars, hostVars, execVars, channelVars, failVars, runVars>>

\* lines 33-38, curl fails
H_PostFailed ==
  /\ hook.pc = "post"
  /\ hook' = hookExit(hook, "deny", "post_failed")
  /\ UNCHANGED <<records, pendingIndex, clock, nRequests, ret, proc, policyVars, hostVars, execVars, channelVars, failVars, runVars>>

\* lines 33-45, the server creates the request and answers {id}
H_Post ==
  \E req \in HookPayloads, id \in IdSpace :
    /\ hook.pc = "post"
    /\ requestApproval(req, id)
    /\ hook' = [hook EXCEPT !.pc = "loop", !.RESPONSE = id, !.REQUEST_ID = id,
                            !.i = 1]
    /\ UNCHANGED <<clock, ret, proc, policyVars, hostVars, execVars, channelVars, failVars, runVars>>

\* lines 33-45, the answer carries an id under which the server that the
\* polls reach holds no record
H_PostUnknown ==
  /\ hook.pc = "post"
  /\ \E id \in IdSpace \ DOMAIN records :
       hook' = [hook EXCEPT !.pc = "loop", !.RESPONSE = id, !.REQUEST_ID = id,
                            !.i = 1]
  /\ UNCHANGED <<records, pendingIndex, clock, nRequests, ret, proc, policyVars, hostVars, execVars, channelVars, failVars, runVars>>

\* lines 33-45, the answer is JSON without an id, or is not JSON
H_PostNoId ==
  /\ hook.pc = "post"
  /\ \/ hook' = hookExit(hook, "deny", "no_id")
     \/ hook' = hookAbort(hook)
  /\ UNCHANGED <<records, pendingIndex, clock, nRequests, ret, proc, policyVars, hostVars, execVars, channelVars, failVars, runVars>>

\* lines 48-58, one iteration of the poll loop
H_Poll ==
  \E answer \in approveStatus(records, hook.REQUEST_ID) \cup {"curl_failed", "not_json"} :
    LET STATUS   == IF answer = "curl_failed" THEN "{}" ELSE answer
        DECISION == jqStatus(STATUS)
        polled   == [hook EXCEPT !.STATUS = STATUS, !.DECISION = DECISION]
    IN
    /\ hook.pc = "loop"
    /\ hook.i <= hook.TIMEOUT
    /\ hook' = IF answer = "not_json" THEN hookAbort([hook EXCEPT !.STATUS = answer])
               ELSE IF isDecision(DECISION) THEN hookExit(polled, DECISION, "decided")
               ELSE [polled EXCEPT !.i = hook.i + 1]
    /\ UNCHANGED <<records, pendingIndex, clock, nRequests, ret, proc, policyVars, hostVars, execVars, channelVars, failVars, runVars>>

\* lines 60-61
H_Timeout ==
  /\ hook.pc = "loop"
  /\ hook.i > hook.TIMEOUT
  /\ hook' = hookExit(hook, timeoutDecision, "deadline")
  /\ UNCHANGED <<records, pendingIndex, clock, nRequests, ret, proc, policyVars, hostVars, execVars, channelVars, failVars, runVars>>

\* (the hook counts poll iterations, not Date.now(): the clock stands still)
NextHook ==
  \/ RequestApproval
  \/ Decide
  \/ ExpireOlderThan
  \/ H_Start
  \/ H_PostFailed
  \/ H_Post
  \/ H_PostUnknown
  \/ H_PostNoId
  \/ H_Poll
  \/ H_Timeout

SpecHook == Init /\ [][NextHook]_vars

\* The script runs on: bash executes its next command.
HookStep ==
  \/ H_Start
  \/ H_PostFailed
  \/ H_Post
  \/ H_PostUnknown
  \/ H_PostNoId
  \/ H_Poll
  \/ H_Timeout

SpecHookLive == SpecHook /\ WF_vars(HookStep)

\* ------------------------------------------------------ SpecPolicy: policy engine
\* evaluatePolicy applied to every rule list of at most MaxRules rules and
\* every request.
ToolNames == {"X", "Y"}
Channels  == {"telegram", "webui"}
Senders   == {"A", "B"}
Effects   == {"allow", "deny", "approve"}

\* ToolPolicy; channels and users are optional arrays
ToolPolicy ==
  [tool : {"X", "*"}, effect : Effects,
   channels : {None, Some({}), Some({"telegram"})},
   users : {None, Some({}), Some({"A"})}]

RECURSIVE PolicyLists(_)
PolicyLists(n) ==
  IF n = 0 THEN {<<>>}
  ELSE PolicyLists(n - 1)
       \cup {Append(l, r) : l \in {k \in PolicyLists(n - 1) : Len(k) = n - 1},
                           r \in ToolPolicy}

\* line 78
toolMatches_noWildcard(policy, toolName) == policy.tool = toolName
toolMatches(policy, toolName) == policy.tool = "*" \/ policy.tool = toolName

\* line 79
channelMatches(policy, channel) ==
  policy.channels = None \/ channel \in policy.channels[1]

\* line 80
userMatches(policy, sender) ==
  policy.users = None \/ sender \in policy.users[1]

\* line 83
defaultDecision_failClosed == "deny"
defaultDecision == "allow"

\* lines 77-83, the loop from rule i on
RECURSIVE evaluatePolicyFrom(_, _, _, _, _)
evaluatePolicyFrom(rules, i, toolName, channel, sender) ==
  IF i > Len(rules) THEN defaultDecision
  ELSE IF ~toolMatches(rules[i], toolName)
         THEN evaluatePolicyFrom(rules, i + 1, toolName, channel, sender)
  ELSE IF ~channelMatches(rules[i], channel)
         THEN evaluatePolicyFrom(rules, i + 1, toolName, channel, sender)
  ELSE IF ~userMatches(rules[i], sender)
         THEN evaluatePolicyFrom(rules, i + 1, toolName, channel, sender)
  ELSE rules[i].effect

\* the loop run from the last rule to the first
RECURSIVE evaluatePolicy_lastMatch(_, _, _, _)
evaluatePolicy_lastMatch(rules, toolName, channel, sender) ==
  IF rules = <<>> THEN defaultDecision
  ELSE LET last == rules[Len(rules)] IN
       IF /\ toolMatches(last, toolName)
          /\ channelMatches(last, channel)
          /\ userMatches(last, sender)
         THEN last.effect
         ELSE evaluatePolicy_lastMatch(SubSeq(rules, 1, Len(rules) - 1),
                                       toolName, channel, sender)

evaluatePolicy(rules, toolName, channel, sender) ==
  evaluatePolicyFrom(rules, 1, toolName, channel, sender)

InitPolicy ==
  /\ InitStore
  /\ ret = NoRet
  /\ proc = [p \in Procs |-> IdleProc]
  /\ hook = HookStart
  /\ policies \in PolicyLists(MaxRules)
  /\ evaluated = NoEval
  /\ tools = <<>>
  /\ gate = NoGate
  /\ exec = NoExec
  /\ parsed = NoParse
  /\ pairing = PairingManager(<<>>)
  /\ thrown = NoThrow
  /\ conversations = NoConversations
  /\ telegram = NoTelegram
  /\ lifecycle = NoLifecycle

Evaluate ==
  \E toolName \in ToolNames, channel \in Channels, sender \in Senders :
    /\ evaluated' = [toolName |-> toolName, channel |-> channel, sender |-> sender,
                     decision |-> evaluatePolicy(policies, toolName, channel, sender)]
    /\ UNCHANGED <<records, pendingIndex, clock, nRequests, ret, proc, hookVars,
                   policies, hostVars, execVars, channelVars, failVars, runVars>>

NextPolicy == Evaluate

SpecPolicy == InitPolicy /\ [][NextPolicy]_vars

\* ------------------------------------------------------ SpecGate: PluginHost
\* The tool registry and getToolsForContext.  setPolicies installs a rule
\* list when none is installed, or clears it.
GatePolicy ==
  {r \in ToolPolicy : /\ r.channels # Some({}) /\ r.users # Some({})
                      /\ r.channels = None \/ r.users = None}

RECURSIVE GatePolicyLists(_)
GatePolicyLists(n) ==
  IF n = 0 THEN {<<>>}
  ELSE GatePolicyLists(n - 1)
       \cup {Append(l, r) : l \in {k \in GatePolicyLists(n - 1) : Len(k) = n - 1},
                           r \in GatePolicy}

\* plugin-host.ts line 69
isExposed_allowOnly(decision) == decision = "allow"
isExposed(decision) == decision # "deny"

\* this.tools.filter(...), lines 67-70, from position i on
RECURSIVE filterTools(_, _, _, _, _)
filterTools(registry, i, rules, channel, sender) ==
  IF i > Len(registry) THEN <<>>
  ELSE LET decision == evaluatePolicy(rules, registry[i], channel, sender)
       IN (IF isExposed(decision) THEN <<registry[i]>> ELSE <<>>)
          \o filterTools(registry, i + 1, rules, channel, sender)

getToolsForContext(registry, rules, channel, sender) ==
  filterTools(registry, 1, rules, channel, sender)

\* this.tools.push(tool): ctx.registerTool, line 43, and
\* registerExternalTool, lines 73-75
\* Array.prototype.push
push_replaceSameName(registry, tool) ==
  IF includes(registry, tool) THEN registry ELSE Append(registry, tool)
push(registry, tool) == Append(registry, tool)

RegisterTool ==
  \E name \in ToolNames :
    /\ Len(tools) < MaxTools
    /\ tools' = push(tools, name)
    /\ gate' = [NoGate EXCEPT !.registered = name]
    /\ UNCHANGED <<records, pendingIndex, clock, nRequests, ret, proc, hookVars,
                   policyVars, execVars, channelVars, failVars, runVars>>

\* lines 62-64
SetPolicies ==
  \E list \in (IF policies = <<>> THEN GatePolicyLists(MaxRules) ELSE {<<>>}) :
    /\ policies' = list
    /\ gate' = NoGate
    /\ UNCHANGED <<records, pendingIndex, clock, nRequests, ret, proc, hookVars,
                   evaluated, tools, execVars, channelVars, failVars, runVars>>

\* lines 66-71
GetToolsForContext ==
  \E channel \in Channels, sender \in Senders :
    /\ gate' = [NoGate EXCEPT !.channel = channel, !.sender = sender,
                   !.list = getToolsForContext(tools, policies, channel, sender)]
    /\ UNCHANGED <<records, pendingIndex, clock, nRequests, ret, proc, hookVars,
                   policyVars, tools, execVars, channelVars, failVars, runVars>>

NextGate ==
  \/ RegisterTool
  \/ SetPolicies
  \/ GetToolsForContext

SpecGate == Init /\ [][NextGate]_vars

\* ------------------------------------------------------ texts
\* A string is the sequence of its characters.
Whitespace == {" ", "\t", "\n", "\r"}

\* \w of a regular expression
WordChars ==
  {"a","b","c","d","e","f","g","h","i","j","k","l","m","n","o","p","q","r","s","t","u","v","w","x","y","z",
   "A","B","C","D","E","F","G","H","I","J","K","L","M","N","O","P","Q","R","S","T","U","V","W","X","Y","Z",
   "0","1","2","3","4","5","6","7","8","9","_"}

Digits == <<"0","1","2","3","4","5","6","7","8","9">>

\* String(n) of a non-negative integer
RECURSIVE toString(_)
toString(n) ==
  IF n < 10 THEN <<Digits[n + 1]>>
  ELSE toString(n \div 10) \o <<Digits[(n % 10) + 1]>>

\* Array.prototype.join
RECURSIVE join(_, _)
join(parts, separator) ==
  IF parts = <<>> THEN <<>>
  ELSE IF Len(parts) = 1 THEN parts[1]
  ELSE parts[1] \o separator \o join(Tail(parts), separator)

\* String.prototype.slice(0, end)
slice(text, end) == SubSeq(text, 1, IF end < Len(text) THEN end ELSE Len(text))

RECURSIVE trimStart(_)
trimStart(text) ==
  IF text # <<>> /\ Head(text) \in Whitespace THEN trimStart(Tail(text)) ELSE text

RECURSIVE trimEnd(_)
trimEnd(text) ==
  IF text # <<>> /\ text[Len(text)] \in Whitespace
  THEN trimEnd(SubSeq(text, 1, Len(text) - 1)) ELSE text

\* String.prototype.trim
trim(text) == trimEnd(trimStart(text))

\* literal occurs in text at position i
hasAt(text, i, literal) ==
  /\ i >= 1
  /\ i + Len(literal) - 1 <= Len(text)
  /\ \A k \in 1..Len(literal) : text[i + k - 1] = literal[k]

isWord(text, i) == i \in 1..Len(text) /\ text[i] \in WordChars

\* \b between text[i] and text[i + 1]
wordBoundary(text, i) == isWord(text, i) # isWord(text, i + 1)

\* ------------------------------------------------------ Command Sandbox
\* safe-exec.ts lines 49-68
ALLOWED_COMMANDS ==
  {<<"p","s">>,
   <<"p","g","r","e","p">>,
   <<"p","i","d","o","f">>,
   <<"f","r","e","e">>,
   <<"d","f">>,
   <<"d","u">>,
   <<"l","s","b","l","k">>,
   <<"l","s","c","p","u">>,
   <<"l","s","m","e","m">>,
   <<"s","s">>,
   <<"i","p">>,
   <<"s","y","s","t","e","m","c","t","l">>,
   <<"j","o","u","r","n","a","l","c","t","l">>,
   <<"l","s">>,
   <<"c","a","t">>,
   <<"h","e","a","d">>,
   <<"t","a","i","l">>,
   <<"w","c">>,
   <<"f","i","l","e">>,
   <<"s","t","a","t">>,
   <<"f","i","n","d">>,
   <<"r","e","a","l","p","a","t","h">>,
   <<"u","p","t","i","m","e">>,
   <<"h","o","s","t","n","a","m","e">>,
   <<"u","n","a","m","e">>,
   <<"w","h","o">>,
   <<"w">>,
   <<"l","a","s","t">>,
   <<"d","a","t","e">>,
   <<"n","i","x">>,
   <<"n","i","x","-","s","t","o","r","e">>,
   <<"n","i","x","o","s","-","o","p","t","i","o","n">>,
   <<"n","i","x","o","s","-","v","e","r","s","i","o","n">>,
   <<"n","i","x","o","s","-","r","e","b","u","i","l","d">>,
   <<"g","i","t">>,
   <<"s","e","n","s","o","r","s">>,
   <<"l","s","u","s","b">>,
   <<"l","s","p","c","i">>}

\* The regular expressions of BLOCKED_PATTERNS are of four shapes:
\*   class   [chars]                       one character of a set
\*   literal \b? literal \b?               a literal, with optional word boundaries
\*   skip    literal \s* [^\s]             a literal, whitespace, a non-blank
\*   then    literal \s+ (alt|alt|...)     a literal, whitespace, one of several
Class(chars) ==
  [kind |-> "class", chars |-> chars, literal |-> <<>>, alts |-> {},
   boundBefore |-> FALSE, boundAfter |-> FALSE]
Literal(literal, boundBefore, boundAfter) ==
  [kind |-> "literal", chars |-> {}, literal |-> literal, alts |-> {},
   boundBefore |-> boundBefore, boundAfter |-> boundAfter]
Skip(literal) ==
  [kind |-> "skip", chars |-> {}, literal |-> literal, alts |-> {},
   boundBefore |-> FALSE, boundAfter |-> FALSE]
Then(literal, alts) ==
  [kind |-> "then", chars |-> {}, literal |-> literal, alts |-> alts,
   boundBefore |-> FALSE, boundAfter |-> FALSE]

\* the character U+0060, which a string of this language cannot hold
Backquote == "backquote"

\* safe-exec.ts lines 70-80
BLOCKED_PATTERNS ==
  << Class({";", "&", "|", Backquote}),
     Literal(<<"$","(">>, FALSE, FALSE),
     Literal(<<"$","{">>, FALSE, FALSE),
     Skip(<<">">>),
     Literal(<<"-","-","d","e","l","e","t","e">>, FALSE, FALSE),
     Literal(<<"-","-","f","o","r","c","e">>, FALSE, FALSE),
     Literal(<<"-","r","f">>, FALSE, TRUE),
     Literal(<<"-","-","h","a","r","d">>, FALSE, FALSE),
     Literal(<<"-","-","n","o","-","v","e","r","i","f","y">>, FALSE, FALSE),
     Literal(<<"-","e","x","e","c">>, FALSE, TRUE),
     Then(<<"n","i","x","o","s","-","r","e","b","u","i","l","d">>, { <<"s","w","i","t","c","h">>, <<"b","o","o","t">>, <<"t","e","s","t">> }),
     Literal(<<"n","i","x","-","c","o","l","l","e","c","t","-","g","a","r","b","a","g","e">>, FALSE, FALSE),
     Literal(<<"p","u","s","h">>, TRUE, TRUE) >>

\* RegExp.prototype.test
test(pattern, text) ==
  CASE pattern.kind = "class" ->
         \E i \in 1..Len(text) : text[i] \in pattern.chars
    [] pattern.kind = "literal" ->
         \E i \in 1..Len(text) :
           /\ hasAt(text, i, pattern.literal)
           /\ pattern.boundBefore => wordBoundary(text, i - 1)
           /\ pattern.boundAfter => wordBoundary(text, i + Len(pattern.literal) - 1)
    [] pattern.kind = "skip" ->
         \E i \in 1..Len(text) :
           /\ hasAt(text, i, pattern.literal)
           /\ \E j \in (i + Len(pattern.literal))..Len(text) :
                /\ text[j] \notin Whitespace
                /\ \A k \in (i + Len(pattern.literal))..(j - 1) :
                     text[k] \in Whitespace
    [] pattern.kind = "then" ->
         \E i \in 1..Len(text) :
           /\ hasAt(text, i, pattern.literal)
           /\ \E j \in (i + Len(pattern.literal) + 1)..Len(text) :
                /\ \A k \in (i + Len(pattern.literal))..(j - 1) :
                     text[k] \in Whitespace
                /\ \E alt \in pattern.alts : hasAt(text, j, alt)

\* ALLOWED_COMMANDS.has(command), line 83
hasCommand_any(command) == TRUE
hasCommand(command) == command \in ALLOWED_COMMANDS

\* args.join(" "), line 84
fullArgs_firstOnly(args) == IF args = <<>> THEN <<>> ELSE args[1]
fullArgs(args) == join(args, <<" ">>)

\* the loop of lines 85-87, from pattern i on
RECURSIVE anyBlocked(_, _)
anyBlocked(i, text) ==
  IF i > Len(BLOCKED_PATTERNS) THEN FALSE
  ELSE IF test(BLOCKED_PATTERNS[i], text) THEN TRUE
  ELSE anyBlocked(i + 1, text)

\* lines 82-89
isCommandAllowed(command, args) ==
  IF ~hasCommand(command) THEN FALSE
  ELSE IF anyBlocked(1, fullArgs(args)) THEN FALSE
  ELSE TRUE

\* the commands and arguments the calls are made with
CommandPool ==
  { <<"l","s">>, <<"f","i","n","d">>, <<"n","i","x","o","s","-","r","e","b","u","i","l","d">>, <<"r","m">>, <<"b","a","s","h">> }

ArgPool ==
  { <<>>, <<"-","l","a">>, <<">">>, <<"o","u","t">>, <<";">>, <<"$","(","i","d",")">>, <<"$","{","x","}">>, <<"-","-","f","o","r","c","e">>,
    <<"-","-","h","a","r","d">>, <<"-","r","f">>, <<"-","r","f","x">>, <<"-","e","x","e","c">>, <<"p","u","s","h">>, <<"n","i","x","o","s","-","r","e","b","u","i","l","d">>,
    <<"s","w","i","t","c","h">> }

RECURSIVE ArgVectors(_)
ArgVectors(n) ==
  IF n = 0 THEN {<<>>}
  ELSE ArgVectors(n - 1)
       \cup {Append(v, a) : v \in {w \in ArgVectors(n - 1) : Len(w) = n - 1},
                           a \in ArgPool}

\* ------------------------------------------------------ SpecExec: the sandbox
\* One call at a time: the call starts in the state without a call.
IsCommandAllowed ==
  /\ exec = NoExec
  /\ \E command \in CommandPool, args \in ArgVectors(MaxArgs) :
      /\ exec' = [NoExec EXCEPT
                    !.op = "isCommandAllowed", !.phase = "returned",
                    !.command = command, !.args = args,
                    !.checked = <<[command |-> command, args |-> args,
                                   allowed |-> isCommandAllowed(command, args)]>>]
      /\ UNCHANGED <<records, pendingIndex, clock, nRequests, ret, proc, hookVars,
                     policyVars, hostVars, channelVars, failVars, runVars>>

\* maxBytes = 10240, line 98
DefaultMaxBytes == 10240

MaxBytesOptions == {None} \cup {Some(n) : n \in 1..MaxBytes}

maxBytesOf(option) == IF option = None THEN DefaultMaxBytes ELSE option[1]

\* what the subprocess wrote
StdoutPool == { <<>>, <<"o","k","\n">>, <<"0","1","2","3","4","5","6","7","8","9","a","b","c","d","e","f","g","h","i","j","k","l","m","n","o","p","q","r","s","t","u","v","w","x","y","z">> }
StderrPool == { <<>>, <<"w","a","r","n","\n">> }

\* How the promise of exec settles: resolved with stdout and stderr, or
\* rejected with an error that carries message and possibly stdout, stderr.
Outcomes ==
  {[kind |-> "success", message |-> <<>>, stdout |-> Some(o), stderr |-> Some(e)] :
     o \in StdoutPool, e \in StderrPool}
  \cup
  {[kind |-> k, message |-> <<"C","o","m","m","a","n","d"," ","f","a","i","l","e","d">>, stdout |-> Some(o), stderr |-> Some(e)] :
     k \in {"exit", "timeout"}, o \in StdoutPool, e \in StderrPool}
  \cup
  {[kind |-> "spawn", message |-> <<"s","p","a","w","n"," ","E","N","O","E","N","T">>, stdout |-> None, stderr |-> None]}

\* x ?? ""
orEmpty(option) == IF option = None THEN <<>> ELSE option[1]

\* line 110 and commands.ts line 9
formatOutput(stdout, stderr) ==
  stdout \o (IF stderr # <<>> THEN <<"\n","S","T","D","E","R","R",":"," ">> \o stderr ELSE <<>>)

\* line 112
truncationNotice(maxBytes) ==
  <<"\n",".",".","."," ","(","t","r","u","n","c","a","t","e","d"," ","a","t"," ">> \o toString(maxBytes) \o <<" ","b","y","t","e","s",")">>

\* lines 111-113
truncate(output, maxBytes) ==
  IF Len(output) > maxBytes
  THEN slice(output, maxBytes) \o truncationNotice(maxBytes)
  ELSE output

\* line 117 and commands.ts line 12
formatError_messageOnly(e) == trim(<<"E","r","r","o","r",":"," ">> \o e.message)
formatError(e) ==
  trim(<<"E","r","r","o","r",":"," ">> \o e.message \o <<"\n">> \o orEmpty(e.stdout)
       \o <<"\n">> \o orEmpty(e.stderr))

\* line 104
blockedText(command, args) ==
  <<"B","L","O","C","K","E","D",":"," ","C","o","m","m","a","n","d"," ","\"">> \o command \o <<" ">> \o join(args, <<" ">>)
    \o <<"\""," ","i","s"," ","n","o","t"," ","p","e","r","m","i","t","t","e","d",".">>

\* !isCommandAllowed(command, args), line 103
refused_never(allowed) == FALSE
refused(allowed) == ~allowed

\* safeExec up to its await: lines 97-109
safeExecCall(tool, command, args, maxBytes) ==
  LET allowed == isCommandAllowed(command, args)
      call == [NoExec EXCEPT
                 !.op = "safeExec", !.tool = tool, !.command = command,
                 !.args = args, !.maxBytes = maxBytes,
                 !.checked = <<[command |-> command, args |-> args,
                                allowed |-> allowed]>>]
  IN IF refused(allowed)
     THEN [call EXCEPT !.phase = "returned",
                       !.result = blockedText(command, args)]
     ELSE [call EXCEPT !.phase = "running",
                       !.spawned = <<[command |-> command, args |-> args]>>]

\* safeExec after its await: lines 109-118
safeExecResult(outcome, maxBytes) ==
  IF outcome.kind = "success"
  THEN truncate(formatOutput(outcome.stdout[1], outcome.stderr[1]), maxBytes)
  ELSE formatError(outcome)

SafeExec ==
  /\ exec = NoExec
  /\ \E command \in CommandPool, args \in ArgVectors(MaxArgs),
     option \in MaxBytesOptions :
      /\ exec' = safeExecCall("none", command, args, maxBytesOf(option))
      /\ UNCHANGED <<records, pendingIndex, clock, nRequests, ret, proc, hookVars,
                     policyVars, hostVars, channelVars, failVars, runVars>>

SafeExec_Settle ==
  /\ exec.op = "safeExec" /\ exec.phase = "running"
  /\ \E outcome \in Outcomes :
      /\ exec' = [exec EXCEPT !.phase = "returned", !.outcomes = <<outcome>>,
                              !.result = safeExecResult(outcome, exec.maxBytes)]
      /\ UNCHANGED <<records, pendingIndex, clock, nRequests, ret, proc, hookVars,
                     policyVars, hostVars, channelVars, failVars, runVars>>

\* ------------------------------------------------------ tool executors
\* observe/index.ts lines 153-156
Query ==
  /\ exec = NoExec
  /\ \E command \in CommandPool, args \in ArgVectors(MaxArgs) :
      /\ exec' = safeExecCall("nixclaw_query", command, args, DefaultMaxBytes)
      /\ UNCHANGED <<records, pendingIndex, clock, nRequests, ret, proc, hookVars,
                     policyVars, hostVars, channelVars, failVars, runVars>>

\* generations.ts listGenerations, run of nixclaw_generations
Generations ==
  /\ exec = NoExec
  /\ exec' = safeExecCall("nixclaw_generations", <<"n","i","x","o","s","-","r","e","b","u","i","l","d">>,
                          << <<"l","i","s","t","-","g","e","n","e","r","a","t","i","o","n","s">> >>, DefaultMaxBytes)
  /\ UNCHANGED <<records, pendingIndex, clock, nRequests, ret, proc, hookVars,
                 policyVars, hostVars, channelVars, failVars, runVars>>

\* what tool input and plugin configuration supply
InputPool == { <<"n","g","i","n","x">>, <<".">>, <<"-","-","f","o","r","c","e">>, <<";"," ","x">>, <<"n","i","x","-","c","o","l","l","e","c","t","-","g","a","r","b","a","g","e">> }

\* runCommand up to its await: commands.ts lines 6-8
runCommandCall(tool, cmd, args) ==
  [NoExec EXCEPT !.op = "runCommand", !.phase = "running", !.tool = tool,
                 !.command = cmd, !.args = args,
                 !.spawned = <<[command |-> cmd, args |-> args]>>]

\* runCommand after its await: commands.ts lines 8-13
runCommandResult(outcome) ==
  IF outcome.kind = "success"
  THEN formatOutput(outcome.stdout[1], outcome.stderr[1])
  ELSE formatError(outcome)

\* commands.ts lines 25-27, run of nixclaw_flake_check
FlakeCheck ==
  /\ exec = NoExec
  /\ \E flakePath \in InputPool :
      /\ exec' = runCommandCall("nixclaw_flake_check", <<"n","i","x">>,
                   << <<"f","l","a","k","e">>, <<"c","h","e","c","k">>, flakePath, <<"-","-","n","o","-","b","u","i","l","d">> >>)
      /\ UNCHANGED <<records, pendingIndex, clock, nRequests, ret, proc, hookVars,
                     policyVars, hostVars, channelVars, failVars, runVars>>

\* commands.ts lines 29-31, run of nixclaw_service_status
ServiceStatus ==
  /\ exec = NoExec
  /\ \E serviceName \in InputPool :
      /\ exec' = runCommandCall("nixclaw_service_status", <<"s","y","s","t","e","m","c","t","l">>,
                   << <<"s","t","a","t","u","s">>, serviceName, <<"-","-","n","o","-","p","a","g","e","r">> >>)
      /\ UNCHANGED <<records, pendingIndex, clock, nRequests, ret, proc, hookVars,
                     policyVars, hostVars, channelVars, failVars, runVars>>

\* commands.ts lines 33-41, run of nixclaw_list_services
ListServices ==
  /\ exec = NoExec
  /\ exec' = runCommandCall("nixclaw_list_services", <<"s","y","s","t","e","m","c","t","l">>,
               << <<"l","i","s","t","-","u","n","i","t","s">>, <<"-","-","t","y","p","e","=","s","e","r","v","i","c","e">>, <<"-","-","s","t","a","t","e","=","r","u","n","n","i","n","g">>,
                  <<"-","-","n","o","-","p","a","g","e","r">>, <<"-","-","n","o","-","l","e","g","e","n","d">> >>)
  /\ UNCHANGED <<records, pendingIndex, clock, nRequests, ret, proc, hookVars,
                 policyVars, hostVars, channelVars, failVars, runVars>>

\* commands.ts lines 43-45, run of nixclaw_nixos_option
NixosOption ==
  /\ exec = NoExec
  /\ \E optionPath \in InputPool :
      /\ exec' = runCommandCall("nixclaw_nixos_option", <<"n","i","x","o","s","-","o","p","t","i","o","n">>,
                   << optionPath >>)
      /\ UNCHANGED <<records, pendingIndex, clock, nRequests, ret, proc, hookVars,
                     policyVars, hostVars, channelVars, failVars, runVars>>

RunCommand_Settle ==
  /\ exec.op = "runCommand" /\ exec.phase = "running"
  /\ \E outcome \in Outcomes :
      /\ exec' = [exec EXCEPT !.phase = "returned", !.outcomes = <<outcome>>,
                              !.result = runCommandResult(outcome)]
      /\ UNCHANGED <<records, pendingIndex, clock, nRequests, ret, proc, hookVars,
                     policyVars, hostVars, channelVars, failVars, runVars>>

\* commands.ts lines 16-21, run of nixclaw_system_status: three runCommand
\* calls started together
SystemStatus ==
  /\ exec = NoExec
  /\ exec' = [NoExec EXCEPT
                !.op = "getSystemStatus", !.phase = "running",
                !.tool = "nixclaw_system_status",
                !.spawned =
                  << [command |-> <<"n","i","x","o","s","-","r","e","b","u","i","l","d">>,
                      args |-> << <<"l","i","s","t","-","g","e","n","e","r","a","t","i","o","n","s">> >>],
                     [command |-> <<"u","p","t","i","m","e">>, args |-> << <<"-","p">> >>],
                     [command |-> <<"h","o","s","t","n","a","m","e">>, args |-> <<>>] >>]
  /\ UNCHANGED <<records, pendingIndex, clock, nRequests, ret, proc, hookVars,
                 policyVars, hostVars, channelVars, failVars, runVars>>

StatusOutcomes ==
  {o \in Outcomes : Len(orEmpty(o.stdout)) <= 3 /\ orEmpty(o.stderr) = <<>>}

\* commands.ts lines 17-22
SystemStatus_Settle ==
  /\ exec.op = "getSystemStatus" /\ exec.phase = "running"
  /\ \E generation \in StatusOutcomes, uptime \in StatusOutcomes,
     hostname \in StatusOutcomes :
      /\ exec' = [exec EXCEPT
                    !.phase = "returned",
                    !.outcomes = <<generation, uptime, hostname>>,
                    !.result = <<"H","o","s","t","n","a","m","e",":"," ">> \o trim(runCommandResult(hostname))
                               \o <<"\n","U","p","t","i","m","e",":"," ">> \o trim(runCommandResult(uptime))
                               \o <<"\n","G","e","n","e","r","a","t","i","o","n","s",":","\n">> \o runCommandResult(generation)]
      /\ UNCHANGED <<records, pendingIndex, clock, nRequests, ret, proc, hookVars,
                     policyVars, hostVars, channelVars, failVars, runVars>>

NextExec ==
  \/ IsCommandAllowed
  \/ SafeExec
  \/ SafeExec_Settle
  \/ Query
  \/ Generations
  \/ FlakeCheck
  \/ ServiceStatus
  \/ ListServices
  \/ NixosOption
  \/ RunCommand_Settle
  \/ SystemStatus
  \/ SystemStatus_Settle

SpecExec == Init /\ [][NextExec]_vars

\* ------------------------------------------------------ SpecFail: failing store
\* A call makes its store accesses in order; failAt is the access that the
\* durable store fails (0: none). A failed write leaves the store as it was.
\* No method of ApprovalStore has a try/catch: the call runs on past an
\* access only when that access and all before it succeeded.
reached_catchAll(access, failAt) == TRUE
reached(access, failAt) == failAt = 0 \/ access < failAt

\* what reaches the caller of a call that makes n store accesses
raised(n, failAt) ==
  [access |-> failAt, error |-> IF reached(n, failAt) THEN "none" ELSE "StoreError"]

\* lines 19-33: setJSON(id), getJSON(index), setJSON(index)
F_RequestApproval ==
  /\ nRequests < MaxRequests
  /\ \E req \in ReqInputs, id \in IdSpace, failAt \in 0..3 :
    /\ nRequests' = nRequests + 1
    /\ records' = IF reached(1, failAt)
                    THEN setJSON(records, id, ApprovalRequest(req, id, "pending", clock))
                    ELSE records
    /\ pendingIndex' = IF reached(3, failAt) THEN Append(pendingIndex, id) ELSE pendingIndex
    /\ thrown' = raised(3, failAt)
    /\ ret' = IF reached(3, failAt) THEN [NoRet EXCEPT !.op = "requestApproval", !.id = id]
              ELSE [NoRet EXCEPT !.op = "requestApproval"]
    /\ UNCHANGED <<clock, proc, hookVars, policyVars, hostVars, execVars, channelVars, runVars>>

\* lines 35-37: getJSON(id)
F_Get ==
  \E id \in IdSpace, failAt \in 0..1 :
    /\ thrown' = raised(1, failAt)
    /\ ret' = IF reached(1, failAt)
              THEN [NoRet EXCEPT !.op = "get", !.id = id, !.rec = get(records, id)]
              ELSE [NoRet EXCEPT !.op = "get"]
    /\ UNCHANGED <<records, pendingIndex>>
    /\ UNCHANGED <<clock, nRequests, proc, hookVars, policyVars, hostVars, execVars, channelVars, runVars>>

\* lines 39-45 and 72-76: get(id), setJSON(id), getJSON(index), setJSON(index)
F_Decide ==
  \E id \in IdSpace, decision \in Decisions :
    LET req == get(records, id)
        n   == IF isPending(req) THEN 4 ELSE 1
    IN \E failAt \in 0..n :
         /\ records' = IF isPending(req) /\ reached(2, failAt)
                         THEN setJSON(records, id, [req[1] EXCEPT !.status = decision])
                         ELSE records
         /\ pendingIndex' = IF isPending(req) /\ reached(4, failAt)
                              THEN removeFromPendingIndex(pendingIndex, id)
                              ELSE pendingIndex
         /\ thrown' = raised(n, failAt)
         /\ ret' = IF reached(n, failAt) THEN [NoRet EXCEPT !.op = "decide", !.id = id]
                   ELSE [NoRet EXCEPT !.op = "decide"]
         /\ UNCHANGED <<clock, nRequests, proc, hookVars, policyVars, hostVars, execVars, channelVars, runVars>>

\* lines 47-52: getJSON(index), then get(id) for each id of the index
F_ListPending ==
  LET n == 1 + Len(pendingIndex) IN
  \E failAt \in 0..n :
    /\ thrown' = raised(n, failAt)
    /\ ret' = IF reached(n, failAt)
              THEN [NoRet EXCEPT !.op = "listPending",
                                 !.list = listPendingFrom(pendingIndex, 1, records)]
              ELSE [NoRet EXCEPT !.op = "listPending"]
    /\ UNCHANGED <<records, pendingIndex>>
    /\ UNCHANGED <<clock, nRequests, proc, hookVars, policyVars, hostVars, execVars, channelVars, runVars>>

\* the for loop of expireOlderThan, lines 58-65, from position i on, access
\* store accesses made so far: get(id), and setJSON(id) for a due request
RECURSIVE expireLoopFailing(_, _, _, _, _, _, _, _)
expireLoopFailing(index, i, recs, expiredIds, now, maxAgeMs, access, failAt) ==
  IF i > Len(index) \/ ~reached(access, failAt)
    THEN [recs |-> recs, expiredIds |-> expiredIds, access |-> access]
  ELSE LET id  == index[i]
           req == get(recs, id)
       IN IF ~reached(access + 1, failAt)
            THEN [recs |-> recs, expiredIds |-> expiredIds, access |-> access + 1]
          ELSE IF ~isDue(req, now, maxAgeMs)
            THEN expireLoopFailing(index, i + 1, recs, expiredIds, now, maxAgeMs,
                                   access + 1, failAt)
          ELSE IF ~reached(access + 2, failAt)
            THEN [recs |-> recs, expiredIds |-> expiredIds, access |-> access + 2]
          ELSE expireLoopFailing(index, i + 1,
                                 setJSON(recs, id, [req[1] EXCEPT !.status = "expired"]),
                                 Append(expiredIds, id), now, maxAgeMs, access + 2, failAt)

\* the store accesses expireOlderThan makes and the store after it
expireOlderThanFailing(index, recs, now, maxAgeMs, failAt) ==
  LET done == expireLoopFailing(index, 1, recs, <<>>, now, maxAgeMs, 1, failAt)
      n    == IF reached(done.access, failAt) /\ Len(done.expiredIds) > 0
              THEN done.access + 1 ELSE done.access
  IN [recs |-> done.recs,
      index |-> IF reached(n, failAt) /\ Len(done.expiredIds) > 0
                THEN SelectSeq(index, LAMBDA id : ~includes(done.expiredIds, id))
                ELSE index,
      accesses |-> n]

\* lines 54-70
F_ExpireOlderThan ==
  \E maxAgeMs \in Ages :
    LET n == expireOlderThanFailing(pendingIndex, records, clock, maxAgeMs, 0).accesses IN
    \E failAt \in 0..n :
      LET done == expireOlderThanFailing(pendingIndex, records, clock, maxAgeMs, failAt) IN
      /\ records' = done.recs
      /\ pendingIndex' = done.index
      /\ thrown' = raised(done.accesses, failAt)
      /\ ret' = IF reached(done.accesses, failAt)
                THEN [NoRet EXCEPT !.op = "expireOlderThan", !.maxAgeMs = maxAgeMs]
                ELSE [NoRet EXCEPT !.op = "expireOlderThan"]
      /\ UNCHANGED <<clock, nRequests, proc, hookVars, policyVars, hostVars, execVars, channelVars, runVars>>

NextFail ==
  \/ F_RequestApproval
  \/ F_Get
  \/ F_Decide
  \/ F_ListPending
  \/ F_ExpireOlderThan

SpecFail == Init /\ [][NextFail]_vars

\* ------------------------------------------------------ SpecParse: approval commands
\* \s+ from position i on: the position after the run of whitespace
RECURSIVE skipSpace(_, _)
skipSpace(text, i) ==
  IF i <= Len(text) /\ text[i] \in Whitespace THEN skipSpace(text, i + 1) ELSE i

\* \S+ from position i on: the position after the run of non-whitespace
RECURSIVE skipNonSpace(_, _)
skipNonSpace(text, i) ==
  IF i <= Len(text) /\ text[i] \notin Whitespace THEN skipNonSpace(text, i + 1) ELSE i

DecisionText(decision) ==
  IF decision = "allow" THEN <<"a","l","l","o","w">> ELSE <<"d","e","n","y">>

\* approval.ts: text.match(/^\/(allow|deny)\s+(\S+)/) without the (\S+)
parseApprovalCommand_idOptional(text) ==
  LET found == {d \in Decisions : hasAt(text, 1, <<"/">> \o DecisionText(d))} IN
  IF found = {} THEN None
  ELSE LET decision == CHOOSE d \in found : TRUE
           p == Len(DecisionText(decision)) + 2
           q == skipSpace(text, p)
           e == skipNonSpace(text, q)
       IN IF q = p THEN None
          ELSE Some([decision |-> decision, id |-> SubSeq(text, q, e - 1)])

\* approval.ts: text.match(/^\/(allow|deny)\s+(\S+)/), match[1] and match[2]
parseApprovalCommand(text) ==
  LET found == {d \in Decisions : hasAt(text, 1, <<"/">> \o DecisionText(d))} IN
  IF found = {} THEN None
  ELSE LET decision == CHOOSE d \in found : TRUE
           p == Len(DecisionText(decision)) + 2
           q == skipSpace(text, p)
           e == skipNonSpace(text, q)
       IN IF q = p \/ e = q THEN None
          ELSE Some([decision |-> decision, id |-> SubSeq(text, q, e - 1)])

\* message texts: a lead, a first word, a gap, an id, a tail
ParseTexts ==
  LET ParseLeads == {<<>>, <<" ">>}
      ParseWords == {<<"/","a","l","l","o","w">>, <<"/","d","e","n","y">>, <<"/","s","t","a","r","t">>, <<"/","a","l","l","o","w","e","d">>, <<"/","d","e","n","y","x">>, <<"a","l","l","o","w">>, <<"h","e","l","l","o">>, <<"/">>}
      ParseGaps  == {<<>>, <<" ">>, <<" "," ">>, <<"\n">>, <<"\t"," ">>}
      ParseIds   == {<<>>, <<"a","b","c","1","2","3">>, <<"a">>, <<"/","d","e","n","y">>}
      ParseTails == {<<>>, <<" ">>, <<" ","e","x","t","r","a">>, <<"\n","x">>}
  IN {lead \o word \o gap \o id \o tail :
        lead \in ParseLeads, word \in ParseWords, gap \in ParseGaps,
        id \in ParseIds, tail \in ParseTails}

ParseApprovalCommand ==
  /\ ~parsed.called
  /\ \E text \in ParseTexts :
       parsed' = [called |-> TRUE, text |-> text, result |-> parseApprovalCommand(text)]
  /\ UNCHANGED <<records, pendingIndex, clock, nRequests, ret, proc, hookVars, policyVars,
                 hostVars, execVars, pairing, failVars, runVars>>

NextParse ==
  \/ ParseApprovalCommand

SpecParse == Init /\ [][NextParse]_vars

\* ------------------------------------------------------ SpecPairing: Telegram pairing
PairingUsers == {"111", "222", "333"}

\* String(randomInt(100000, 999999)): the upper limit is exclusive
PairingCodes == {toString(100000), toString(543210), toString(999998)}

\* pairing.ts lines 11-14
isAuthorized(p, userId) ==
  IF Len(p.allowedUsers) = 0 THEN TRUE ELSE userId \in p.pairedUsers

\* Map.prototype.get
pendingCode(p, userId) ==
  IF userId \in DOMAIN p.pendingCodes THEN Some(p.pendingCodes[userId]) ELSE None

\* pairing.ts lines 16-20
requestPairing(p, userId, code) ==
  [p EXCEPT !.pendingCodes = [u \in DOMAIN p.pendingCodes \cup {userId} |->
                                IF u = userId THEN code ELSE p.pendingCodes[u]],
            !.op = "requestPairing", !.userId = userId, !.code = code, !.result = FALSE]

\* pairing.ts lines 22-28 without the comparison of the code
completePairing_anyCode(p, userId, code) ==
  LET expected == pendingCode(p, userId) IN
  IF expected = None \/ expected[1] = <<>>
    THEN [p EXCEPT !.op = "completePairing", !.userId = userId, !.code = code,
                   !.result = FALSE]
    ELSE [p EXCEPT !.pairedUsers = p.pairedUsers \cup {userId},
                   !.pendingCodes = [u \in DOMAIN p.pendingCodes \ {userId} |->
                                       p.pendingCodes[u]],
                   !.op = "completePairing", !.userId = userId, !.code = code,
                   !.result = TRUE]

\* pairing.ts lines 22-28
completePairing(p, userId, code) ==
  LET expected == pendingCode(p, userId) IN
  IF expected = None \/ expected[1] = <<>> \/ expected[1] # code
    THEN [p EXCEPT !.op = "completePairing", !.userId = userId, !.code = code,
                   !.result = FALSE]
    ELSE [p EXCEPT !.pairedUsers = p.pairedUsers \cup {userId},
                   !.pendingCodes = [u \in DOMAIN p.pendingCodes \ {userId} |->
                                       p.pendingCodes[u]],
                   !.op = "completePairing", !.userId = userId, !.code = code,
                   !.result = TRUE]

InitPairing ==
  /\ InitStore
  /\ ret = NoRet
  /\ proc = [q \in Procs |-> IdleProc]
  /\ hook = HookStart
  /\ policies = <<>>
  /\ evaluated = NoEval
  /\ tools = <<>>
  /\ gate = NoGate
  /\ exec = NoExec
  /\ parsed = NoParse
  /\ pairing \in {PairingManager(allowedUsers) :
                    allowedUsers \in {<<>>, <<"111">>, <<"111", "222">>}}
  /\ thrown = NoThrow
  /\ conversations = NoConversations
  /\ telegram = NoTelegram
  /\ lifecycle = NoLifecycle

IsAuthorized ==
  \E userId \in PairingUsers :
    /\ pairing' = [pairing EXCEPT !.op = "isAuthorized", !.userId = userId, !.code = <<>>,
                                  !.result = isAuthorized(pairing, userId)]
    /\ UNCHANGED <<records, pendingIndex, clock, nRequests, ret, proc, hookVars, policyVars,
                   hostVars, execVars, parsed, failVars, runVars>>

RequestPairing ==
  \E userId \in PairingUsers, code \in PairingCodes :
    /\ pairing' = requestPairing(pairing, userId, code)
    /\ UNCHANGED <<records, pendingIndex, clock, nRequests, ret, proc, hookVars, policyVars,
                   hostVars, execVars, parsed, failVars, runVars>>

CompletePairing ==
  \E userId \in PairingUsers, code \in PairingCodes \cup {toString(999999)} :
    /\ pairing' = completePairing(pairing, userId, code)
    /\ UNCHANGED <<records, pendingIndex, clock, nRequests, ret, proc, hookVars, policyVars,
                   hostVars, execVars, parsed, failVars, runVars>>

NextPairing ==
  \/ IsAuthorized
  \/ RequestPairing
  \/ CompletePairing

SpecPairing == InitPairing /\ [][NextPairing]_vars

\* ------------------------------------------------------ SpecConv: conversations
\* context.ts line 5
MAX_MESSAGES == 50

\* lines 10-16
getMessages(stored, conversationId) ==
  LET raw == getJSON(stored, conversationId) IN IF raw = None THEN <<>> ELSE raw[1]

\* Array.prototype.slice(-n), n > 0, keeping the first n instead
sliceLast_keepFirst(messages, n) ==
  IF Len(messages) <= n THEN messages ELSE SubSeq(messages, 1, n)

\* Array.prototype.slice(-n), n > 0
sliceLast(messages, n) ==
  IF Len(messages) <= n THEN messages
  ELSE SubSeq(messages, Len(messages) - n + 1, Len(messages))

\* lines 26-35
append(stored, conversationId, message) ==
  LET messages == Append(getMessages(stored, conversationId), message)
      trimmed  == sliceLast(messages, MAX_MESSAGES)
  IN setJSON(stored, conversationId, trimmed)

\* the number of messages appended so far, and of the assistant messages
\* among them
Appends == Len(conversations.appended["conv-1"]) + Len(conversations.appended["conv-2"])
Replies ==
  LET count(c) == Cardinality({k \in 1..Len(conversations.appended[c]) :
                                 conversations.appended[c][k].role = "assistant"})
  IN count("conv-1") + count("conv-2")

\* the conversations a message may go to
ConvTargets ==
  {"conv-1"} \cup (IF Len(conversations.appended["conv-2"]) < MaxOther
                   THEN {"conv-2"} ELSE {})

\* the text is msg-n for the n-th message of the conversation: content
\* holds n
appendCall(conversationId, role) ==
  LET message == [role |-> role,
                  content |-> Len(conversations.appended[conversationId]) + 1] IN
  conversations' =
    [stored   |-> append(conversations.stored, conversationId, message),
     appended |-> [conversations.appended EXCEPT
                     ![conversationId] = Append(@, message)]]

\* lines 18-20
AddUserMessage ==
  /\ Appends < MaxAppends
  /\ \E conversationId \in ConvTargets :
       appendCall(conversationId, "user")
  /\ UNCHANGED <<records, pendingIndex, clock, nRequests, ret, proc, hookVars, policyVars,
                 hostVars, execVars, channelVars, failVars, telegram, lifecycle>>

\* lines 22-24
AddAssistantMessage ==
  /\ Appends < MaxAppends
  /\ Replies < MaxReplies
  /\ \E conversationId \in ConvTargets :
       appendCall(conversationId, "assistant")
  /\ UNCHANGED <<records, pendingIndex, clock, nRequests, ret, proc, hookVars, policyVars,
                 hostVars, execVars, channelVars, failVars, telegram, lifecycle>>

NextConv ==
  \/ AddUserMessage
  \/ AddAssistantMessage

SpecConv == Init /\ [][NextConv]_vars

\* ------------------------------------------------------ SpecTelegram: the channel
\* EventBus.on(event, handler): the handler is subscribed; the function
\* returned, off, unsubscribes it
on(subscribed, event) == subscribed \cup {event}
off(subscribed, event) == subscribed \ {event}

\* EventBus.emit(event, payload): the handlers subscribed for the event run
handlersOf(subscribed, event) == subscribed \cap {event}

\* an event on the bus; decision and id are the payload of approval:decide,
\* sender and text the payload of message:incoming
BusEvent(event, decision, id, sender, text) ==
  [event |-> event, decision |-> decision, id |-> id, sender |-> sender, text |-> text]

\* index.ts line 316, text.match(/^\d{6}$/)
isPairingCode(text) ==
  Len(text) = 6 /\ \A k \in 1..6 : \E d \in 1..Len(Digits) : text[k] = Digits[d]

\* line 314, !pairing.isAuthorized(userId), always false
mustPair_never(p, userId) == FALSE
\* line 314, !pairing.isAuthorized(userId)
mustPair(p, userId) == ~isAuthorized(p, userId)

\* line 336, if (approvalCmd), always false
isApprovalCommand_never(approvalCmd) == FALSE
\* line 336, if (approvalCmd)
isApprovalCommand(approvalCmd) == approvalCmd # None

\* the handler of message:text, lines 309-350: the pairing manager after it
\* and the events it emits
onText(p, userId, text, code) ==
  IF mustPair(p, userId)
  THEN IF isPairingCode(text)
       THEN [pairing |-> completePairing(p, userId, text), emitted |-> <<>>]
       ELSE [pairing |-> requestPairing(p, userId, code), emitted |-> <<>>]
  ELSE LET approvalCmd == parseApprovalCommand(text) IN
       IF isApprovalCommand(approvalCmd)
       THEN [pairing |-> p,
             emitted |-> <<BusEvent("approval:decide", approvalCmd[1].decision,
                                    approvalCmd[1].id, "none", <<>>)>>]
       ELSE [pairing |-> p,
             emitted |-> <<BusEvent("message:incoming", "none", <<>>, userId, text)>>]

\* the handler of message:voice, lines 352-383: the events it emits;
\* transcription is None when the download or the transcription failed
onVoice(p, stt, userId, transcription) ==
  IF ~isAuthorized(p, userId) THEN <<>>
  ELSE IF ~stt THEN <<>>
  ELSE IF transcription = None THEN <<>>
  ELSE <<BusEvent("message:incoming", "none", <<>>, userId, transcription[1])>>

\* the handler of approval:decide, lines 435-447: the request it POSTs
decidePost(cmd) == [id |-> cmd.id, decision |-> cmd.decision]

\* emit of the events, one after the other: the handlers of the channel
\* that run, and the POSTs of the approval:decide handler
ranFor(subscribed, emitted) ==
  UNION {handlersOf(subscribed, emitted[k].event) : k \in 1..Len(emitted)}
postsFor(subscribed, emitted) ==
  LET decides == SelectSeq(emitted, LAMBDA e :
                   handlersOf(subscribed, e.event) = {"approval:decide"})
  IN [k \in 1..Len(decides) |-> decidePost(decides[k])]

\* the texts of the messages the bot receives
TelegramTexts ==
  { <<"/","a","l","l","o","w"," ","a","b","c","1","2","3">>, <<"/","d","e","n","y"," ","a">>, <<"/","a","l","l","o","w">>, <<"/","a","l","l","o","w"," ","a","b","c","1","2","3"," ","n","o","w">>, <<"h","e","l","l","o">>,
    <<"a","l","l","o","w"," ","a","b","c","1","2","3">>, toString(999999) } \cup PairingCodes

\* init, lines 282-450
TelegramInit ==
  /\ telegram.phase = "constructed"
  /\ \E botTokenFile \in BOOLEAN, voice \in BOOLEAN :
       IF ~botTokenFile
       THEN /\ telegram' = [telegram EXCEPT !.phase = "skipped", !.op = "init"]
            /\ UNCHANGED pairing
       ELSE /\ pairing' = PairingManager(pairing.allowedUsers)
            /\ telegram' =
                 [telegram EXCEPT
                    !.phase = "started", !.op = "init", !.stt = voice,
                    !.subscribed = on(on(on(@, "message:response"), "approval:request"),
                                      "approval:decide"),
                    !.cleanups = Append(Append(@, "message:response"),
                                        "approval:request")]
  /\ UNCHANGED <<records, pendingIndex, clock, nRequests, ret, proc, hookVars, policyVars,
                 hostVars, execVars, parsed, failVars, conversations, lifecycle>>

\* the bot delivers a text message to the handler of lines 309-350
OnText ==
  /\ telegram.phase = "started"
  /\ \E userId \in PairingUsers, text \in TelegramTexts, code \in PairingCodes :
       LET run == onText(pairing, userId, text, code) IN
       /\ pairing' = run.pairing
       /\ telegram' = [telegram EXCEPT
                         !.op = "text", !.userId = userId, !.text = text,
                         !.emitted = run.emitted,
                         !.ran = ranFor(telegram.subscribed, run.emitted),
                         !.posts = postsFor(telegram.subscribed, run.emitted)]
  /\ UNCHANGED <<records, pendingIndex, clock, nRequests, ret, proc, hookVars, policyVars,
                 hostVars, execVars, parsed, failVars, conversations, lifecycle>>

\* the bot delivers a voice message to the handler of lines 352-383
OnVoice ==
  /\ telegram.phase = "started"
  /\ \E userId \in PairingUsers, transcription \in {None, Some(<<"h","e","l","l","o">>), Some(<<"/","a","l","l","o","w"," ","a","b","c","1","2","3">>)} :
       LET emitted == onVoice(pairing, telegram.stt, userId, transcription) IN
       telegram' = [telegram EXCEPT
                      !.op = "voice", !.userId = userId, !.text = <<>>,
                      !.emitted = emitted,
                      !.ran = ranFor(telegram.subscribed, emitted),
                      !.posts = postsFor(telegram.subscribed, emitted)]
  /\ UNCHANGED <<records, pendingIndex, clock, nRequests, ret, proc, hookVars, policyVars,
                 hostVars, execVars, channelVars, failVars, conversations, lifecycle>>

\* another component emits an event on the bus
BusEmit ==
  /\ \E event \in {BusEvent("approval:decide", "allow", <<"a","b","c","1","2","3">>, "none", <<>>),
                    BusEvent("approval:decide", "deny", <<"a">>, "none", <<>>),
                    BusEvent("approval:request", "none", <<"a","b","c","1","2","3">>, "none", <<>>),
                    BusEvent("message:response", "none", <<>>, "111", <<"d","o","n","e">>)} :
       telegram' = [telegram EXCEPT
                      !.op = "emit", !.userId = "none", !.text = <<>>,
                      !.emitted = <<event>>,
                      !.ran = ranFor(telegram.subscribed, <<event>>),
                      !.posts = postsFor(telegram.subscribed, <<event>>)]
  /\ UNCHANGED <<records, pendingIndex, clock, nRequests, ret, proc, hookVars, policyVars,
                 hostVars, execVars, channelVars, failVars, conversations, lifecycle>>

\* this.cleanups.forEach(fn => fn()), line 453, from entry i on
RECURSIVE runCleanups(_, _, _)
runCleanups(subscribed, cleanups, i) ==
  IF i > Len(cleanups) THEN subscribed
  ELSE runCleanups(off(subscribed, cleanups[i]), cleanups, i + 1)

\* shutdown, lines 452-455
TelegramShutdown ==
  /\ telegram.phase \in {"started", "skipped"}
  /\ telegram' = [telegram EXCEPT
                    !.phase = "stopped", !.op = "shutdown", !.userId = "none",
                    !.text = <<>>, !.emitted = <<>>, !.ran = {}, !.posts = <<>>,
                    !.subscribed = runCleanups(@, telegram.cleanups, 1)]
  /\ UNCHANGED <<records, pendingIndex, clock, nRequests, ret, proc, hookVars, policyVars,
                 hostVars, execVars, channelVars, failVars, conversations, lifecycle>>

NextTelegram ==
  \/ TelegramInit
  \/ OnText
  \/ OnVoice
  \/ BusEmit
  \/ TelegramShutdown

SpecTelegram == InitPairing /\ [][NextTelegram]_vars

\* ------------------------------------------------------ SpecLife: plugin lifecycle
PluginNames == {"terminal", "telegram", "webui", "scheduler"}

\* plugin-host.ts lines 32-37
register(host, plugin) ==
  [host EXCEPT !.plugins = Append(@, plugin), !.registered = Append(@, plugin)]

Register ==
  /\ lifecycle.phase = "registering"
  /\ Len(lifecycle.plugins) < MaxPlugins
  /\ \E plugin \in PluginNames :
       /\ \A k \in 1..Len(lifecycle.registered) : lifecycle.registered[k] # plugin
       /\ lifecycle' = register(lifecycle, plugin)
  /\ UNCHANGED <<records, pendingIndex, clock, nRequests, ret, proc, hookVars, policyVars,
                 hostVars, execVars, channelVars, failVars, conversations, telegram>>

\* the loop of initAll, lines 40-49, from the iterator's next() to the
\* await of line 48, or to the end of the loop
initNext(host) ==
  IF host.initIndex < Len(host.plugins)
  THEN [host EXCEPT !.phase = "initializing", !.initIndex = @ + 1,
                    !.initLog = Append(@, host.plugins[host.initIndex + 1])]
  ELSE [host EXCEPT !.phase = "running"]

\* index.ts line 54, await pluginHost.initAll(), up to the first await
InitAll ==
  /\ lifecycle.phase = "registering"
  /\ lifecycle' = initNext(lifecycle)
  /\ UNCHANGED <<records, pendingIndex, clock, nRequests, ret, proc, hookVars, policyVars,
                 hostVars, execVars, channelVars, failVars, conversations, telegram>>

\* the init of a plugin resolves
InitAll_Settle ==
  /\ lifecycle.phase = "initializing"
  /\ lifecycle' = initNext(lifecycle)
  /\ UNCHANGED <<records, pendingIndex, clock, nRequests, ret, proc, hookVars, policyVars,
                 hostVars, execVars, channelVars, failVars, conversations, telegram>>

\* Array.prototype.reverse, which reverses the array in place and returns it
reverse(array) == [k \in 1..Len(array) |-> array[Len(array) + 1 - k]]

\* the loop of shutdownAll, lines 53-55, from the iterator's next() to the
\* await of line 54, or to the end of the loop; the iterator reads
\* this.plugins as it is when next() runs
shutdownNext(plugins, call) ==
  IF call.index < Len(plugins)
  THEN [call EXCEPT !.index = @ + 1, !.log = Append(@, plugins[call.index + 1])]
  ELSE [call EXCEPT !.position = "disconnecting"]

\* index.ts lines 58-67: SIGINT or SIGTERM runs the handler, which calls
\* shutdownAll, plugin-host.ts lines 52-56, up to its first await
ShutdownAll ==
  /\ lifecycle.phase = "running"
  /\ ~lifecycle.exited
  /\ Len(lifecycle.calls) < MaxSignals
  /\ LET plugins == reverse(lifecycle.plugins)
         call == [index |-> 0, log |-> <<>>, position |-> "awaiting"]
     IN lifecycle' = [lifecycle EXCEPT
                        !.plugins = plugins,
                        !.calls = Append(@, shutdownNext(plugins, call))]
  /\ UNCHANGED <<records, pendingIndex, clock, nRequests, ret, proc, hookVars, policyVars,
                 hostVars, execVars, channelVars, failVars, conversations, telegram>>

\* the shutdown of a plugin resolves: its invocation of shutdownAll goes on
ShutdownAll_Settle ==
  /\ ~lifecycle.exited
  /\ \E i \in 1..Len(lifecycle.calls) :
       /\ lifecycle.calls[i].position = "awaiting"
       /\ lifecycle' = [lifecycle EXCEPT
                          !.calls[i] = shutdownNext(lifecycle.plugins, @)]
  /\ UNCHANGED <<records, pendingIndex, clock, nRequests, ret, proc, hookVars, policyVars,
                 hostVars, execVars, channelVars, failVars, conversations, telegram>>

\* index.ts lines 61-63: disconnectAll resolves, the state store is closed
\* and the process exits
Exit ==
  /\ ~lifecycle.exited
  /\ \E i \in 1..Len(lifecycle.calls) :
       /\ lifecycle.calls[i].position = "disconnecting"
       /\ lifecycle' = [lifecycle EXCEPT !.exited = TRUE, !.calls[i].position = "exited"]
  /\ UNCHANGED <<records, pendingIndex, clock, nRequests, ret, proc, hookVars, policyVars,
                 hostVars, execVars, channelVars, failVars, conversations, telegram>>

NextLife ==
  \/ Register
  \/ InitAll
  \/ InitAll_Settle
  \/ ShutdownAll
  \/ ShutdownAll_Settle
  \/ Exit

SpecLife == Init /\ [][NextLife]_vars

\* ------------------------------------------------------ claims: ApprovalStore
occurrences(seq, x) == Cardinality({k \in 1..Len(seq) : seq[k] = x})

\* C1: a record's status changes only from pending to allow, deny or expired,
\* and a record whose status is allow, deny or expired is never modified again
\* by any requestApproval, decide, expireOlderThan, get or listPending call.
C1_OnlyOutOfPending ==
  [][\A id \in DOMAIN records :
       /\ id \in DOMAIN records'
       /\ records'[id].status # records[id].status
            => records[id].status = "pending" /\ records'[id].status \in Terminal
       /\ records[id].status \in Terminal => records'[id] = records[id]]_vars

\* C3: every requestApproval returns an id different from every id returned
\* by an earlier call (the ids of the records stored so far), the new record
\* is pending, and no existing record is overwritten.
C3_FreshId ==
  [][ret'.op = "requestApproval" /\ nRequests' = nRequests + 1
       => /\ ret'.id \notin DOMAIN records
          /\ records'[ret'.id].status = "pending"
          /\ \A id \in DOMAIN records : records'[id] = records[id]]_vars

\* C4: after every completed call an id is in the pending index if and only
\* if its record exists with status pending, and it occurs there exactly once.
C4_IndexIffPending ==
  \A id \in IdSpace :
    /\ includes(pendingIndex, id) <=> isPending(get(records, id))
    /\ occurrences(pendingIndex, id) <= 1

\* C2: when decide and expireOlderThan, or two decide calls, interleave on one
\* pending id, the record makes exactly one transition out of pending: the
\* record write of a decide or expireOlderThan never changes the status of a
\* record that a reader could already have seen allow, deny or expired.
C2_ExactlyOneTransition ==
  [][(\E p \in Procs : /\ proc[p].pc \in {"d_setRecord", "e_setRecord"}
                       /\ proc'[p].pc # proc[p].pc)
       => \A id \in DOMAIN records :
            records[id].status \in Terminal
              => records'[id].status = records[id].status]_vars

\* C5: between the store writes of decide or expireOlderThan no store state
\* has a record with status allow, deny or expired whose id is still in the
\* pending index.
C5_AtomicIndexRemoval ==
  \A id \in DOMAIN records :
    records[id].status \in Terminal => ~includes(pendingIndex, id)

\* C6: once all concurrently running requestApproval, decide and
\* expireOlderThan calls have completed, every record with status pending has
\* its id in the pending index.
C6_NoLostIndexUpdate ==
  (\A p \in Procs : proc[p].pc = "idle")
    => \A id \in DOMAIN records :
         records[id].status = "pending" => includes(pendingIndex, id)

\* a step of Spec is a decide call / an expireOlderThan call: the call is the
\* last one completed and the clock did not tick
DecideCall == ret'.op = "decide" /\ clock' = clock
ExpireCall == ret'.op = "expireOlderThan" /\ clock' = clock

\* C18: decide(id, d) on a record whose status is already allow, deny or
\* expired leaves that record, every other record and the pending index
\* unchanged, for d = allow and for d = deny.
C18_DecideTerminalNoOp ==
  [][(/\ DecideCall
      /\ ret'.id \in DOMAIN records
      /\ records[ret'.id].status \in Terminal)
       => records' = records /\ pendingIndex' = pendingIndex]_vars

\* C18 witness: decide has returned for a record that is expired, a status
\* only expireOlderThan sets: the decision came after the expiry.
C18_Witness ==
  /\ ret.op = "decide"
  /\ ret.id \in DOMAIN records
  /\ records[ret.id].status = "expired"

\* C19: expireOlderThan(0) sets every record that has status pending to
\* expired and leaves none of those ids in the pending index, and records
\* with status allow or deny keep their status.
C19_ExpireZeroExpiresAllPending ==
  [][(ExpireCall /\ ret'.maxAgeMs = 0)
       => \A id \in DOMAIN records :
            /\ records[id].status = "pending"
                 => records'[id].status = "expired" /\ ~includes(pendingIndex', id)
            /\ records[id].status \in Decisions
                 => records'[id].status = records[id].status]_vars

\* C19 witness: after expireOlderThan(0) one record is expired and another
\* is still allow or deny.
C19_Witness ==
  /\ ret.op = "expireOlderThan" /\ ret.maxAgeMs = 0
  /\ \E a, b \in DOMAIN records :
       records[a].status = "expired" /\ records[b].status \in Decisions

\* the ids expireOlderThan(maxAgeMs) finds due in the store: in the index,
\* pending, and of age now - createdAt >= maxAgeMs
DueIds(maxAgeMs) ==
  {id \in DOMAIN records :
     /\ includes(pendingIndex, id)
     /\ records[id].status = "pending"
     /\ clock - records[id].createdAt >= maxAgeMs}

\* C20: expireOlderThan(maxAgeMs) sets exactly the pending requests of the
\* index whose age is >= maxAgeMs (equal included) to expired, removes exactly
\* their ids from the index, and leaves every other record, the younger
\* pending ones included, as it was and in the index.
C20_ExpiresExactlyDue ==
  [][ExpireCall
       => /\ DOMAIN records' = DOMAIN records
          /\ \A id \in DOMAIN records :
               records'[id] = IF id \in DueIds(ret'.maxAgeMs)
                                THEN [records[id] EXCEPT !.status = "expired"]
                                ELSE records[id]
          /\ pendingIndex' = SelectSeq(pendingIndex,
                                LAMBDA id : id \notin DueIds(ret'.maxAgeMs))]_vars

\* C20 witness: an expireOlderThan(maxAgeMs) with maxAgeMs > 0 has expired a
\* request whose age equals maxAgeMs and left a younger one pending in the
\* index.
C20_Witness ==
  /\ ret.op = "expireOlderThan" /\ ret.maxAgeMs > 0
  /\ \E a, b \in DOMAIN records :
       /\ records[a].status = "expired"
       /\ clock - records[a].createdAt = ret.maxAgeMs
       /\ records[b].status = "pending"
       /\ clock - records[b].createdAt < ret.maxAgeMs
       /\ includes(pendingIndex, b)

\* C21: after any one-at-a-time sequence of requestApproval, decide and
\* expireOlderThan calls, listPending returns exactly the records whose
\* status is pending, each once (so after two requests of which one was
\* decided, exactly the other one).
C21_ListPendingExact ==
  ret.op = "listPending" =>
    /\ \A k \in 1..Len(ret.list) :
         /\ ret.list[k].id \in DOMAIN records
         /\ ret.list[k] = records[ret.list[k].id]
    /\ \A id \in DOMAIN records :
         Cardinality({k \in 1..Len(ret.list) : ret.list[k].id = id})
           = IF records[id].status = "pending" THEN 1 ELSE 0

\* C22: for any content of the store, also with a pending index that names
\* ids whose record is missing or not pending, listPending returns a value
\* (it does not raise) that holds, in index order, the records of the index
\* entries whose record exists with status pending, and nothing for the
\* other entries.
C22_ListPendingDropsStale ==
  ret.op = "listPending" =>
    LET live == SelectSeq(pendingIndex,
                          LAMBDA id : id \in DOMAIN records
                                        /\ records[id].status = "pending")
    IN /\ Len(ret.list) = Len(live)
       /\ \A k \in 1..Len(live) : ret.list[k] = records[live[k]]

\* C22 witness: listPending has returned for an index that names an id
\* without a record, an id of a record that is not pending, and a pending one.
C22_Witness ==
  /\ ret.op = "listPending"
  /\ \E k \in 1..Len(pendingIndex) : pendingIndex[k] \notin DOMAIN records
  /\ \E k \in 1..Len(pendingIndex) :
       /\ pendingIndex[k] \in DOMAIN records
       /\ records[pendingIndex[k]].status \in Terminal
  /\ Len(ret.list) >= 1

\* C23: no call deletes a record or changes anything of it but its status:
\* id, tool, input, session, requester and createdAt of a stored record stay
\* what requestApproval stored.
C23_OnlyStatusChanges ==
  [][\A id \in DOMAIN records :
       /\ id \in DOMAIN records'
       /\ [records'[id] EXCEPT !.status = records[id].status] = records[id]]_vars

\* C28: a call of requestApproval, decide, expireOlderThan, get or
\* listPending in which a store access fails raises the failure to its
\* caller: it returns no value, it makes none of the accesses that come
\* after the failed one (the pending index, written last, stays as it was,
\* and when the first access failed the records stay as they were).
C28_StoreFailurePropagates ==
  [][thrown'.access # 0
       => /\ thrown'.error = "StoreError"
          /\ ret'.id = NoRet.id /\ ret'.rec = NoRet.rec /\ ret'.list = NoRet.list
          /\ pendingIndex' = pendingIndex
          /\ thrown'.access = 1 => records' = records]_vars

\* C28 witness: decide has written the decision, then reading the pending
\* index failed: the failure reached the caller and the decided request is
\* still in the index.
C28_Witness ==
  /\ ret.op = "decide"
  /\ thrown = [access |-> 3, error |-> "StoreError"]
  /\ \E id \in DOMAIN records :
       records[id].status \in Decisions /\ includes(pendingIndex, id)

\* C35: decide(id, d) for an id under which no record is stored creates no
\* record, changes no record and leaves the pending index as it was, and
\* returns without raising.
C35_DecideUnknownNoOp ==
  [][(DecideCall /\ ret'.id \notin DOMAIN records)
       => /\ records' = records
          /\ pendingIndex' = pendingIndex
          /\ thrown' = NoThrow]_vars

\* C35 witness: decide has returned for an id without a record while a
\* request is pending under another id.
C35_Witness ==
  /\ ret.op = "decide"
  /\ ret.id \notin DOMAIN records
  /\ \E id \in DOMAIN records : records[id].status = "pending" /\ includes(pendingIndex, id)

\* C36: get and listPending leave every record and the pending index as they
\* were, and the status stored under an id changes only in a decide or an
\* expireOlderThan call.
C36_ReadsChangeNothing ==
  [][/\ (ret'.op \in {"get", "listPending"} /\ clock' = clock)
          => records' = records /\ pendingIndex' = pendingIndex
     /\ \A id \in DOMAIN records :
          (id \in DOMAIN records' /\ records'[id].status # records[id].status)
            => DecideCall \/ ExpireCall]_vars

\* ------------------------------------------------------ claims: polling hook
\* C7: the hook outputs allow only in a poll of the id its own POST returned
\* whose answer is status allow; every other decision it outputs is deny, and
\* it outputs deny when jq is missing, the POST fails, the response has no
\* id, or the deadline is reached (a poll answering expired or failing
\* outputs nothing and polling goes on), whatever the expiry sweep has done.
C7_AllowOnlyIfPolledAllow ==
  [][/\ hook'.out = "allow" /\ hook.out # "allow"
          => /\ hook.pc = "loop" /\ hook.i <= hook.TIMEOUT
             /\ hook.REQUEST_ID = hook.RESPONSE /\ hook.REQUEST_ID \in DOMAIN records
             /\ records[hook.REQUEST_ID].status = "allow"
             /\ hook'.STATUS = "allow" /\ hook'.exit = "decided"
     /\ hook'.out \in {"none", "allow", "deny"}
     /\ hook'.exit \in {"jq_missing", "post_failed", "no_id", "deadline"}
          => hook'.out = "deny"
     /\ hook'.STATUS \in {"expired", "{}", "pending"} => hook'.out # "allow"
     /\ hook.out # "none" => hook'.out = hook.out]_vars

\* C7 witness: the hook has output allow after a poll that found its request
\* allowed.
C7_Witness ==
  /\ hook.out = "allow" /\ hook.exit = "decided"
  /\ hook.REQUEST_ID \in DOMAIN records
  /\ records[hook.REQUEST_ID].status = "allow"

\* C24: the hook always terminates and outputs exactly one decision; it
\* makes at most TIMEOUT polls, and when it stops at the deadline (no poll
\* returned allow or deny: the request pending or expired, the id unknown,
\* the server unreachable) it outputs deny; nothing of this waits for the
\* expiry sweep.
C24_Terminates == <>(hook.pc = "exited")
C24_OneDecision ==
  /\ [](hook.pc = "exited" => hook.out \in Decisions)
  /\ [][hook.out # "none" => hook'.out = hook.out]_vars
C24_AtMostTimeoutPolls ==
  /\ [](hook.i <= hook.TIMEOUT + 1)
  /\ [][hook'.exit = "deadline" => hook'.out = "deny"]_vars
C24_HookTerminatesWithDecision ==
  /\ C24_Terminates
  /\ C24_OneDecision
  /\ C24_AtMostTimeoutPolls

\* The hook is polling its request and that request has been decided.
PollingDecided ==
  /\ hook.pc = "loop" /\ hook.i <= hook.TIMEOUT
  /\ hook.REQUEST_ID \in DOMAIN records
  /\ records[hook.REQUEST_ID].status \in Decisions

\* C25: once decide(id, d) has completed while the hook polls id before its
\* deadline, the decision d is what the next poll finds: the record keeps
\* status d until that poll, the poll that gets the server's answer reads d,
\* the hook outputs d and stops; and a decision the hook outputs after a poll
\* is the status the record has at that poll.
C25_PollObservesDecision ==
  [][/\ PollingDecided /\ hook' = hook
          => /\ hook.REQUEST_ID \in DOMAIN records'
             /\ records'[hook.REQUEST_ID].status = records[hook.REQUEST_ID].status
     /\ PollingDecided /\ hook' # hook /\ hook'.STATUS \in Statuses
          => /\ hook'.STATUS = records[hook.REQUEST_ID].status
             /\ hook'.out = records[hook.REQUEST_ID].status
             /\ hook'.pc = "exited"
     /\ hook'.exit = "decided" /\ hook.exit # "decided"
          => /\ hook.REQUEST_ID \in DOMAIN records
             /\ hook'.out = records[hook.REQUEST_ID].status]_vars

\* C27: for an id without a record the lookup answers not-found, which is no
\* record and no status, and the hook that polls such an id does not take
\* the answer for the status pending.
C27_UnknownIdIsNotPending ==
  [][/\ hook.pc = "loop" /\ hook.i <= hook.TIMEOUT
     /\ hook.REQUEST_ID \notin DOMAIN records
     /\ hook' # hook
          => /\ get(records, hook.REQUEST_ID) = None
             /\ approveStatus(records, hook.REQUEST_ID) \cap Statuses = {}
             /\ hook'.DECISION # "pending"]_vars

\* ------------------------------------------------------ claims: policy engine
\* a rule matches a request: its tool matcher is the wildcard or the tool
\* name, its channel set is absent or has the channel, its user set is absent
\* or has the sender
RuleApplies(rule, e) ==
  /\ rule.tool \in {"*", e.toolName}
  /\ rule.channels # None => e.channel \in rule.channels[1]
  /\ rule.users # None => e.sender \in rule.users[1]

Applying(e) == {i \in 1..Len(policies) : RuleApplies(policies[i], e)}

FirstApplying(e) == CHOOSE i \in Applying(e) : \A j \in Applying(e) : i <= j

AllowXForA == [tool |-> "X", effect |-> "allow", channels |-> None,
               users |-> Some({"A"})]
DenyX      == [tool |-> "X", effect |-> "deny", channels |-> None, users |-> None]
DenyAll    == [tool |-> "*", effect |-> "deny", channels |-> None, users |-> None]

\* C8: evaluatePolicy returns the effect of the first rule in list order that
\* matches the request, whatever later matching rules say; for the rules
\* [allow X for users {A}, deny X] the decision for tool X is allow for
\* sender A and deny for every other sender, on every channel.
C8_FirstMatchWins ==
  evaluated.decision # "none" =>
    /\ Applying(evaluated) # {}
         => evaluated.decision = policies[FirstApplying(evaluated)].effect
    /\ policies = <<AllowXForA, DenyX>> /\ evaluated.toolName = "X"
         => evaluated.decision = IF evaluated.sender = "A" THEN "allow" ELSE "deny"

\* C8 witness: two rules match the request, with different effects, and the
\* request has been evaluated.
C8_Witness ==
  /\ evaluated.decision # "none"
  /\ Applying(evaluated) = {1, 2}
  /\ policies[1].effect # policies[2].effect
  /\ evaluated.decision = policies[1].effect

\* C9: evaluatePolicy returns allow whenever no rule matches the request, so
\* always for the empty rule list, and a rule whose channel set or user set
\* does not have the request's channel or sender has no effect on the
\* decision (the list without that rule decides the same).
C9_DefaultAllow ==
  evaluated.decision # "none" =>
    /\ Applying(evaluated) = {} => evaluated.decision = "allow"
    /\ policies = <<>> => evaluated.decision = "allow"
    /\ \A i \in 1..Len(policies) :
         (\/ policies[i].channels # None /\ evaluated.channel \notin policies[i].channels[1]
          \/ policies[i].users # None /\ evaluated.sender \notin policies[i].users[1])
           => evaluated.decision =
                evaluatePolicy(SubSeq(policies, 1, i - 1)
                                 \o SubSeq(policies, i + 1, Len(policies)),
                               evaluated.toolName, evaluated.channel, evaluated.sender)

\* C9 witness: a deny rule for the tool, restricted to another channel, is the
\* only rule and the request has been allowed.
C9_Witness ==
  /\ evaluated.decision = "allow"
  /\ Len(policies) = 1
  /\ policies[1].effect = "deny"
  /\ policies[1].tool = evaluated.toolName
  /\ policies[1].channels = Some({"telegram"})
  /\ evaluated.channel = "webui"

\* C10: when the last rule is a wildcard deny with no channel set and no user
\* set, some rule matches every request, the decision is allow only if the
\* first matching rule is an explicit allow rule, and it is deny for every
\* request that none of the earlier rules matches.
C10_FailClosed ==
  (evaluated.decision # "none" /\ policies # <<>> /\ policies[Len(policies)] = DenyAll)
    => /\ Applying(evaluated) # {}
       /\ evaluated.decision = "allow"
            => policies[FirstApplying(evaluated)].effect = "allow"
       /\ Applying(evaluated) = {Len(policies)} => evaluated.decision = "deny"

\* C10 witness: a request that only the final wildcard deny matches has been
\* denied, behind an earlier allow rule that does not match it.
C10_Witness ==
  /\ Len(policies) >= 2
  /\ policies[Len(policies)] = DenyAll
  /\ policies[1].effect = "allow"
  /\ evaluated.decision = "deny"
  /\ Applying(evaluated) = {Len(policies)}

\* evaluatePolicy of a rule list for the request of the last call
Decision(rules) ==
  evaluatePolicy(rules, evaluated.toolName, evaluated.channel, evaluated.sender)

\* C37: when a rule of a beginning R of the list matches the request, the
\* list R followed by S decides as R alone does; and a rule that does not
\* match the request, at any position, can be removed without changing the
\* decision, which is to say that the shorter list decides the same with
\* that rule inserted there (a rule with an empty channel set or an empty
\* user set matches no request).
C37_PrefixDecidesAndNonMatchingNeutral ==
  evaluated.decision # "none" =>
    /\ \A k \in 0..Len(policies) :
         (\E i \in 1..k : RuleApplies(policies[i], evaluated))
           => Decision(SubSeq(policies, 1, k)) = evaluated.decision
    /\ \A i \in 1..Len(policies) :
         ~RuleApplies(policies[i], evaluated)
           => Decision(SubSeq(policies, 1, i - 1) \o SubSeq(policies, i + 1, Len(policies)))
                = evaluated.decision
    /\ \A i \in 1..Len(policies) :
         policies[i].channels = Some({}) \/ policies[i].users = Some({})
           => ~RuleApplies(policies[i], evaluated)

\* C37 witness: a deny rule with an empty channel set stands before an approve
\* rule that matches the request, and the request has been decided approve.
C37_Witness ==
  /\ Len(policies) = 2
  /\ policies[1].channels = Some({}) /\ policies[1].effect = "deny"
  /\ policies[1].tool = "*" /\ policies[1].users = None
  /\ RuleApplies(policies[2], evaluated) /\ policies[2].effect = "approve"
  /\ evaluated.decision = "approve"

entriesOf(list, name) == {k \in 1..Len(list) : list[k] = name}

\* C29: registering a tool appends it to the registry whatever names are
\* registered already, and no call removes, replaces or reorders an entry:
\* the registry before a call is the beginning of the registry after it; and
\* getToolsForContext returns every entry of a name that is not denied, one
\* for each registration of that name.
C29_RegistrationAppends ==
  [][/\ Len(tools) <= Len(tools') /\ SubSeq(tools', 1, Len(tools)) = tools
     /\ gate'.registered # "none" => tools' = Append(tools, gate'.registered)
     /\ gate'.channel # "none" =>
          \A name \in ToolNames :
            evaluatePolicy(policies', name, gate'.channel, gate'.sender) # "deny"
              => Cardinality(entriesOf(gate'.list, name))
                   = Cardinality(entriesOf(tools', name))]_vars

\* C29 witness: a name was registered twice, then another one, and
\* getToolsForContext returned the three entries in registration order.
C29_Witness ==
  /\ Len(tools) = 3 /\ tools[1] = tools[2] /\ tools[3] # tools[1]
  /\ gate.channel # "none"
  /\ gate.list = tools

\* ------------------------------------------------------ claims: Command Sandbox
\* the arguments with one space between neighbours
SpaceJoined(args) ==
  LET F[i \in 0..Len(args)] ==
        IF i = 0 THEN <<>>
        ELSE IF i = 1 THEN args[1]
        ELSE F[i - 1] \o <<" ">> \o args[i]
  IN F[Len(args)]

MatchesBlocked(text) ==
  \E i \in DOMAIN BLOCKED_PATTERNS : test(BLOCKED_PATTERNS[i], text)

contains(text, part) ==
  part = <<>> \/ \E i \in 1..Len(text) : hasAt(text, i, part)

\* C12: every evaluation of isCommandAllowed for a command that is not in
\* the allowlist returns false, whatever the arguments are, the empty
\* argument list included.
C12_NotAllowlistedRefused ==
  \A i \in DOMAIN exec.checked :
    exec.checked[i].command \notin ALLOWED_COMMANDS => ~exec.checked[i].allowed

\* C12 witness: isCommandAllowed returned false for a command outside the
\* allowlist called with no arguments.
C12_Witness ==
  /\ exec.op = "isCommandAllowed"
  /\ exec.command \notin ALLOWED_COMMANDS
  /\ exec.args = <<>>
  /\ ~exec.checked[1].allowed

\* C13: isCommandAllowed returns true exactly when the command is in the
\* allowlist and the arguments joined by single spaces match no blocked
\* pattern; so for an allowed command it returns false whenever the joined
\* text matches, also when the match spans two adjacent arguments.
C13_AllowedIffNoPatternMatches ==
  \A i \in DOMAIN exec.checked :
    exec.checked[i].allowed <=>
      /\ exec.checked[i].command \in ALLOWED_COMMANDS
      /\ ~MatchesBlocked(SpaceJoined(exec.checked[i].args))

\* C13 witness: an allowed command was refused for two arguments neither of
\* which matches a blocked pattern alone, while the joined text does.
C13_Witness ==
  /\ exec.op = "isCommandAllowed"
  /\ exec.command \in ALLOWED_COMMANDS
  /\ Len(exec.args) = 2
  /\ ~MatchesBlocked(exec.args[1]) /\ ~MatchesBlocked(exec.args[2])
  /\ MatchesBlocked(SpaceJoined(exec.args))
  /\ ~exec.checked[1].allowed

\* C14: a safeExec call for which isCommandAllowed is false returns a text
\* beginning with "BLOCKED:" as its result and spawns nothing; whatever a
\* safeExec call spawns is the command and argument vector of the call, for
\* which isCommandAllowed returned true before.
C14_BlockedSpawnsNothing ==
  exec.op = "safeExec" =>
    /\ ~isCommandAllowed(exec.command, exec.args) =>
         /\ exec.phase = "returned"
         /\ hasAt(exec.result, 1, <<"B","L","O","C","K","E","D",":">>)
         /\ exec.spawned = <<>>
    /\ \A i \in DOMAIN exec.spawned :
         /\ exec.spawned[i] = [command |-> exec.command, args |-> exec.args]
         /\ \E j \in DOMAIN exec.checked :
              exec.checked[j] = [command |-> exec.spawned[i].command,
                                 args |-> exec.spawned[i].args,
                                 allowed |-> TRUE]

\* C14 witness: safeExec refused an allowlisted command because of its
\* arguments and returned the BLOCKED text.
C14_Witness ==
  /\ exec.op = "safeExec" /\ exec.phase = "returned"
  /\ exec.command \in ALLOWED_COMMANDS
  /\ ~isCommandAllowed(exec.command, exec.args)
  /\ exec.spawned = <<>>
  /\ hasAt(exec.result, 1, <<"B","L","O","C","K","E","D",":">>)

\* C15: for every allowed command and every outcome of its execution the
\* text safeExec returns is at most maxBytes plus the length of the
\* truncation notice long.
C15_ResultLengthBounded ==
  (/\ exec.op = "safeExec" /\ exec.phase = "returned" /\ exec.outcomes # <<>>)
    => Len(exec.result) <= exec.maxBytes + Len(truncationNotice(exec.maxBytes))

\* safeExec has returned after a failure of the subprocess
FailureReturned ==
  /\ exec.op = "safeExec" /\ exec.outcomes # <<>>
  /\ exec.outcomes[1].kind \in {"exit", "spawn", "timeout"}

\* C16 as stated: safeExec never raises, and after a non-zero exit, a spawn
\* failure or a timeout the returned text contains the error message, the
\* captured standard output and the captured standard error.
C16_Original ==
  /\ exec.op = "safeExec" /\ exec.outcomes # <<>> => exec.phase = "returned"
  /\ FailureReturned =>
       /\ contains(exec.result, exec.outcomes[1].message)
       /\ contains(exec.result, orEmpty(exec.outcomes[1].stdout))
       /\ contains(exec.result, orEmpty(exec.outcomes[1].stderr))

\* C16 amended: safeExec never raises, and after a non-zero exit, a spawn
\* failure or a timeout the returned text begins with "Error: " and contains
\* the error message, the captured standard output and the captured standard
\* error, each without the whitespace at its end.
C16_ErrorTextKeepsOutput ==
  /\ exec.op = "safeExec" /\ exec.outcomes # <<>> => exec.phase = "returned"
  /\ FailureReturned =>
       /\ hasAt(exec.result, 1, <<"E","r","r","o","r",":"," ">>)
       /\ contains(exec.result, trimEnd(exec.outcomes[1].message))
       /\ contains(exec.result, trimEnd(orEmpty(exec.outcomes[1].stdout)))
       /\ contains(exec.result, trimEnd(orEmpty(exec.outcomes[1].stderr)))

\* C16 witness: a subprocess that timed out after writing to standard
\* output and standard error, and safeExec returned the error text.
C16_Witness ==
  /\ FailureReturned /\ exec.phase = "returned"
  /\ exec.outcomes[1].kind = "timeout"
  /\ orEmpty(exec.outcomes[1].stdout) # <<>>
  /\ orEmpty(exec.outcomes[1].stderr) # <<>>
  /\ contains(exec.result, trimEnd(orEmpty(exec.outcomes[1].stdout)))

\* C17: whatever the executor of a registered tool spawns, isCommandAllowed
\* returned true for that program and those arguments before.
C17_ToolsSpawnThroughSandbox ==
  exec.tool # "none" =>
    \A i \in DOMAIN exec.spawned :
      \E j \in DOMAIN exec.checked :
        exec.checked[j] = [command |-> exec.spawned[i].command,
                           args |-> exec.spawned[i].args,
                           allowed |-> TRUE]


\* the sub-commands of nixos-rebuild that change the system
RebuildModes == { <<"s","w","i","t","c","h">>, <<"b","o","o","t">>, <<"t","e","s","t">> }

\* the argument vector names one of them
selectsRebuildMode(args) == \E i \in 1..Len(args) : args[i] \in RebuildModes

\* C33: isCommandAllowed("nixos-rebuild", args) is false whenever args
\* selects the sub-command switch, boot or test, and safeExec never spawns
\* nixos-rebuild with one of these sub-commands.
C33_RebuildOnlyLists ==
  LET rebuild == <<"n","i","x","o","s","-","r","e","b","u","i","l","d">> IN
  /\ \A k \in 1..Len(exec.checked) :
       exec.checked[k].command = rebuild /\ selectsRebuildMode(exec.checked[k].args)
         => ~exec.checked[k].allowed
  /\ exec.checked # <<>>
       => \A k \in 1..Len(exec.spawned) :
            ~(exec.spawned[k].command = rebuild /\ selectsRebuildMode(exec.spawned[k].args))

\* ------------------------------------------------------ claims: Telegram channel
\* text begins with / and the decision word, followed by whitespace up to
\* position k
CommandHead(text, decision, k) ==
  LET word == <<"/">> \o DecisionText(decision) IN
  /\ hasAt(text, 1, word)
  /\ k > Len(word)
  /\ \A m \in (Len(word) + 1)..k : text[m] \in Whitespace

\* positions k + 1 to j of text are a non-empty run without whitespace
IdRun(text, k, j) ==
  /\ k < j /\ j <= Len(text)
  /\ \A m \in (k + 1)..j : text[m] \notin Whitespace

\* C26 as stated: parseApprovalCommand returns decision and id exactly for
\* the texts that are /allow or /deny, whitespace, and an id, and nothing
\* else; it returns null for every other text.
C26_Original ==
  parsed.called =>
    LET text  == parsed.text
        forms == {f \in Decisions \X (1..Len(text)) :
                    CommandHead(text, f[1], f[2]) /\ IdRun(text, f[2], Len(text))}
    IN IF forms = {} THEN parsed.result = None
       ELSE \E f \in forms :
              parsed.result = Some([decision |-> f[1],
                                    id |-> SubSeq(text, f[2] + 1, Len(text))])

\* C26: parseApprovalCommand returns decision and id exactly for the texts
\* that begin with /allow or /deny, whitespace, and an id, the id being the
\* run of non-whitespace characters there and whatever follows the id being
\* ignored; it returns null for every other text, among them /allow and
\* /deny without an id and other slash commands.
C26_ParsesCommandPrefix ==
  parsed.called =>
    LET text  == parsed.text
        forms == {f \in Decisions \X (1..Len(text)) \X (1..Len(text)) :
                    /\ CommandHead(text, f[1], f[2])
                    /\ IdRun(text, f[2], f[3])
                    /\ f[3] = Len(text) \/ text[f[3] + 1] \in Whitespace}
    IN IF forms = {} THEN parsed.result = None
       ELSE \E f \in forms :
              parsed.result = Some([decision |-> f[1],
                                    id |-> SubSeq(text, f[2] + 1, f[3])])

\* C26 witness: a command followed by more text has been parsed to its
\* decision and id.
C26_Witness ==
  /\ parsed.called
  /\ parsed.text = <<"/","d","e","n","y"," ","a","b","c","1","2","3"," ","e","x","t","r","a">>
  /\ parsed.result = Some([decision |-> "deny", id |-> <<"a","b","c","1","2","3">>])

\* C26 witness of the cases named: /allow without an id is no command.
C26_WitnessNoId ==
  /\ parsed.called
  /\ parsed.text = <<"/","a","l","l","o","w"," ">>
  /\ parsed.result = None

\* the users of the allow list
Allowed(p) == {p.allowedUsers[k] : k \in 1..Len(p.allowedUsers)}

\* C30: users of the allow list are authorized from the start and stay so,
\* and with an empty list every user is authorized; with a non-empty list a
\* user outside it becomes authorized only in a completePairing call for
\* that user with the code that requestPairing last returned for that user
\* (the pending code of a user is only ever set by requestPairing for that
\* user, to the code it returns); completePairing with any other code, or
\* with no code pending, returns false and authorizes nobody.
C30_PairingAuthorizes ==
  [][/\ \A u \in Allowed(pairing) : isAuthorized(pairing, u) /\ isAuthorized(pairing', u)
     /\ Len(pairing.allowedUsers) = 0 => \A u \in PairingUsers : isAuthorized(pairing, u)
     /\ pairing'.allowedUsers = pairing.allowedUsers
     /\ \A u \in PairingUsers :
          /\ ~isAuthorized(pairing, u) /\ isAuthorized(pairing', u)
               => /\ pairing'.op = "completePairing" /\ pairing'.userId = u
                  /\ pairing'.result = TRUE
                  /\ pendingCode(pairing, u) = Some(pairing'.code)
          /\ pendingCode(pairing', u) \notin {None, pendingCode(pairing, u)}
               => /\ pairing'.op = "requestPairing" /\ pairing'.userId = u
                  /\ pendingCode(pairing', u) = Some(pairing'.code)
     /\ pairing'.op = "completePairing"
        /\ pendingCode(pairing, pairing'.userId) # Some(pairing'.code)
          => /\ pairing'.result = FALSE
             /\ pairing'.pairedUsers = pairing.pairedUsers
             /\ pairing'.pendingCodes = pairing.pendingCodes
     /\ pairing'.op = "isAuthorized"
          => pairing'.result = isAuthorized(pairing, pairing'.userId)]_vars

\* C30 witness: with a non-empty allow list, a user outside it is authorized
\* after completePairing with the code pending for that user, which is
\* thereby used up, while another user outside the list is not authorized.
C30_Witness ==
  /\ pairing.allowedUsers = <<"111">>
  /\ pairing.op = "completePairing" /\ pairing.userId = "333"
  /\ pairing.code = toString(543210) /\ pairing.result = TRUE
  /\ isAuthorized(pairing, "333") /\ ~isAuthorized(pairing, "222")
  /\ pendingCode(pairing, "333") = None

eventsOf(emitted, event) == SelectSeq(emitted, LAMBDA e : e.event = event)

\* C32: the text handler checks for an approval command before forwarding:
\* a text of an authorized sender that parses as an approval command puts
\* exactly one approval:decide event on the bus, with the parsed decision
\* and id, and no message:incoming; any other text of an authorized sender
\* puts exactly one message:incoming on the bus, with the sender and the
\* text, and no approval:decide.
C32_ApprovalBeforeForwarding ==
  [][(telegram'.op = "text" /\ isAuthorized(pairing, telegram'.userId)) =>
       LET cmd      == parseApprovalCommand(telegram'.text)
           decides  == eventsOf(telegram'.emitted, "approval:decide")
           incoming == eventsOf(telegram'.emitted, "message:incoming")
       IN IF cmd # None
          THEN /\ Len(decides) = 1 /\ Len(incoming) = 0
               /\ decides[1].decision = cmd[1].decision /\ decides[1].id = cmd[1].id
          ELSE /\ Len(incoming) = 1 /\ Len(decides) = 0
               /\ incoming[1].sender = telegram'.userId
               /\ incoming[1].text = telegram'.text]_vars

\* C32 witness: an authorized sender's /deny a became one approval:decide,
\* which the channel's own handler POSTed.
C32_Witness ==
  /\ telegram.op = "text" /\ telegram.text = <<"/","d","e","n","y"," ","a">>
  /\ isAuthorized(pairing, telegram.userId)
  /\ telegram.emitted = <<BusEvent("approval:decide", "deny", <<"a">>, "none", <<>>)>>
  /\ telegram.posts = <<[id |-> <<"a">>, decision |-> "deny"]>>

\* C34: a message handler emits approval:decide only for a text message
\* whose sender the pairing manager authorizes when the message arrives;
\* for a sender it does not authorize, also one sending /allow or /deny,
\* nothing is emitted and nothing is POSTed to the decide endpoint.
C34_DecideOnlyFromAuthorized ==
  [][telegram'.op \in {"text", "voice"} =>
       /\ eventsOf(telegram'.emitted, "approval:decide") # <<>>
            => telegram'.op = "text" /\ isAuthorized(pairing, telegram'.userId)
       /\ ~isAuthorized(pairing, telegram'.userId)
            => telegram'.emitted = <<>> /\ telegram'.posts = <<>>]_vars

\* C34 witness: a sender who is not authorized sent /allow abc123; nothing
\* was emitted, a pairing code was generated instead.
C34_Witness ==
  /\ telegram.op = "text" /\ telegram.text = <<"/","a","l","l","o","w"," ","a","b","c","1","2","3">>
  /\ ~isAuthorized(pairing, telegram.userId)
  /\ pairing.op = "requestPairing" /\ pairing.userId = telegram.userId
  /\ telegram.emitted = <<>> /\ telegram.posts = <<>>

\* C39: after shutdown none of the handlers that init subscribed on the
\* event bus (message:response, approval:request, approval:decide) is still
\* subscribed, so that an approval:decide emitted later causes no POST to
\* the decide endpoint.
C39_ShutdownUnsubscribes ==
  /\ [](telegram.phase = "stopped" =>
          telegram.subscribed
            \cap {"message:response", "approval:request", "approval:decide"} = {})
  /\ [][(telegram.phase = "stopped" /\ telegram'.op = "emit"
          /\ eventsOf(telegram'.emitted, "approval:decide") # <<>>)
          => telegram'.posts = <<>> /\ telegram'.ran = {}]_vars

\* ------------------------------------------------------ claims: plugin lifecycle
isPrefix(s, t) == Len(s) <= Len(t) /\ s = SubSeq(t, 1, Len(s))

\* C40: initAll initializes the plugins in registration order, and every
\* invocation of shutdownAll shuts each plugin down exactly once, in reverse
\* registration order, also a second invocation and one that starts while
\* an earlier one is awaiting a plugin's shutdown.
C40_InitOrderShutdownReverse ==
  /\ isPrefix(lifecycle.initLog, lifecycle.registered)
  /\ lifecycle.phase = "running" => lifecycle.initLog = lifecycle.registered
  /\ \A i \in 1..Len(lifecycle.calls) :
       /\ isPrefix(lifecycle.calls[i].log, reverse(lifecycle.registered))
       /\ lifecycle.calls[i].position # "awaiting"
            => lifecycle.calls[i].log = reverse(lifecycle.registered)

\* ------------------------------------------------------ claims: conversations
\* the history of every conversation is the end of what was appended to it,
\* MAX_MESSAGES messages at most
HistoryIsRecent ==
  \A c \in ConversationIds :
    LET history == getMessages(conversations.stored, c)
        all     == conversations.appended[c]
    IN /\ Len(history) <= 50
       /\ Len(history) = (IF Len(all) <= 50 THEN Len(all) ELSE 50)
       /\ history = SubSeq(all, Len(all) - Len(history) + 1, Len(all))

\* C31: after any addUserMessage and addAssistantMessage calls the history
\* of a conversation has at most 50 messages and is exactly the most recent
\* messages appended to it, in append order; a call appending to one
\* conversation leaves the history of every other conversation unchanged.
C31_HistoryBoundedRecent ==
  /\ []HistoryIsRecent
  /\ [][\A c \in ConversationIds :
          conversations'.appended[c] = conversations.appended[c]
            => getMessages(conversations.stored, c)'
                 = getMessages(conversations.stored, c)]_vars

\* C31 witness: 51 messages went to one conversation, an assistant message
\* among the kept ones, so that the oldest is gone, and one message went to
\* the other conversation.
C31_Witness ==
  /\ Len(conversations.appended["conv-1"]) = 51
  /\ Len(getMessages(conversations.stored, "conv-1")) = 50
  /\ getMessages(conversations.stored, "conv-1")[1].content = 2
  /\ \E k \in 1..50 : getMessages(conversations.stored, "conv-1")[k].role = "assistant"
  /\ Len(getMessages(conversations.stored, "conv-2")) = 1

====
